---- MODULE Spec2Model ----
(***************************************************************************)
(* A model of the asim simulation kernel: the virtual timer               *)
(* (src/src/timer.rs), the async mutex and condition variable              *)
(* (src/src/sync/mutex.rs), the mpsc channel (src/src/sync/mpsc.rs), the   *)
(* executor with its block_on driver (src/src/runtime.rs,                  *)
(* src/src/task.rs) and the network of nodes and links                     *)
(* (src/src/network/), and the units of time (src/src/time.rs).            *)
(*                                                                         *)
(* The specifications share the variables:                                 *)
(*   SpecTimer  the Timer API called in any order                          *)
(*   SpecMutex  the Mutex / Condvar API called in any order                *)
(*   SpecSync   SyncCondvar timed waits and the Timer, in any order        *)
(*   SpecExec   a Runtime driven by hand (spawn, with_context,             *)
(*              execute_tasks), with tasks that lock the mutex             *)
(*   SpecRt     Runtime::block_on driving tasks that sleep, spawn, send,   *)
(*              receive and yield                                          *)
(*   SpecChan   the mpsc channel: sends and polls of recv() in any order   *)
(*   SpecPeers  Node::new, Node::connect and disconnect_all in any order   *)
(*   SpecSend   send_to, broadcast, disconnect_all and the hub's relay on  *)
(*              a star of nodes, no pass running                           *)
(*   SpecLink   two nodes and their link, the runtime driven by hand       *)
(*   SpecNet    Runtime::block_on, the root sending over a star of nodes   *)
(*   SpecStop   SpecLink with Runtime::stop called between two passes     *)
(*   SpecUnits  the unit constructors and accessors of Time and Duration   *)
(*   SpecBlock  SpecLink with handlers that may never complete             *)
(*   SpecCut    SpecLink with disconnect_all called between two passes     *)
(*   SpecHold   SpecExec with a task that holds the guard over an await    *)
(*              and locks again at once                                    *)
(***************************************************************************)
EXTENDS Integers, Sequences, FiniteSets

VARIABLES
    pc,              \* position of the driver: block_on's loop, or "api"
    current_time,    \* Timer.current_time (microseconds)
    time_events,     \* Timer.time_events: the BinaryHeap's backing Vec
    ready_tasks,     \* Runtime.ready_tasks: the Vec of ready tasks
    sleeps,          \* SpecTimer: the pending SleepFut tokens
    is_locked,       \* MutexInner.is_locked
    next_waiter_id,  \* MutexInner.next_waiter_id
    waiters,         \* Mutex.waiters: Vec of [id, waker]
    guards,          \* ghost: identifiers of the LockGuards that exist
    lock_futs,       \* the LockFutures created and not yet resolved
    cond_waiters,    \* Condvar.waiters: Vec of [cw, waker]
    cond_waits,      \* the CondWait futures: woken flag, inner lock_future
    done,            \* block_on's done flag
    taken,           \* execute_tasks' local Vec, taken from ready_tasks
    context,         \* the CONTEXT slot holds a handle
    tasks,           \* the tasks: future slot, pending await, remaining ops
    cur,             \* the task being polled (0: none)
    messages,        \* mpsc Inner.messages
    recv_waker,      \* mpsc Inner.waker (0: None)
    root_log,        \* ghost: the operations the root has executed
    polled,          \* ghost: the tasks polled so far in the current pass
    pass_queue,      \* ghost: the ready queue as the current pass took it
    context_locks,   \* ghost: the number of ContextLock values alive
    network_links,   \* Node.network_links of every node: peer |-> link (0: none)
    bandwidth,       \* Node.bandwidth of every node (bits per second)
    links,           \* the Links: their two LinkQueues, active_queues and the
                     \* calls made to the LinkCallback (ghost)
    inbox,           \* the inbox channel of every node: mpsc Inner.messages
    inbox_waker,     \* the inbox channel of every node: mpsc Inner.waker
    batch,           \* inbox_loop's drained Vec of every node, what is left
    roles,           \* what the future of a network task is: role by task
    next_msg,        \* ghost: the number of messages given to Link::send
    link_sends,      \* ghost: Link::send invocations, by link
    sent_log,        \* ghost: the messages in the order of the Link::sends
    enq_log,         \* ghost: by node, the messages in inbox-enqueue order
    handle_log,      \* ghost: the handle_message calls that have started
    ack_log,         \* ghost: the messages whose ack closure has been invoked
    ret,             \* ghost: what the last call of the network API returned
    chan_sent,       \* ghost: the messages given to Sender::send, in order
    chan_recv,       \* ghost: the batches GetFut has returned, concatenated
    chan_last,       \* ghost: the outcome of the last poll of a GetFut
    stopped,         \* ghost: the number of tasks created before the last stop()
    conv             \* SpecUnits: the Duration or Time made last and what was read of it

timerVars == <<current_time, time_events>>
sleepVars == <<sleeps>>
mutexVars == <<is_locked, next_waiter_id, waiters, guards, lock_futs,
               cond_waiters, cond_waits>>
passVars  == <<polled, pass_queue>>
netVars   == <<network_links, bandwidth, links, inbox, inbox_waker, batch,
               roles>>
netLogs   == <<next_msg, link_sends, sent_log, enq_log, handle_log, ack_log, ret>>
chanLogs  == <<chan_sent, chan_recv, chan_last>>
auxVars   == <<stopped, conv>>
rtVars    == <<done, taken, context, tasks, cur, messages, recv_waker, root_log,
               polled, pass_queue, context_locks, netVars, netLogs, chanLogs, auxVars>>
vars      == <<pc, current_time, time_events, ready_tasks, sleeps,
               is_locked, next_waiter_id, waiters, guards, lock_futs,
               cond_waiters, cond_waits,
               done, taken, context, tasks, cur, messages, recv_waker, root_log,
               polled, pass_queue, context_locks,
               network_links, bandwidth, links, inbox, inbox_waker, batch, roles,
               next_msg, link_sends, sent_log, enq_log, handle_log, ack_log, ret,
               chan_sent, chan_recv, chan_last, stopped, conv>>

(***************************************************************************)
(* Bounds of the model.                                                    *)
(***************************************************************************)
MaxDur      == 2    \* sleep durations are drawn from 0..MaxDur
MaxTime     == 2    \* SpecTimer creates no sleep that ends after MaxTime
MaxSleeps   == 2    \* SleepFut tokens pending at once in SpecTimer
MaxHeap     == 3    \* entries of the timer heap
MaxReady    == 2    \* entries of the ready queue in SpecTimer and SpecMutex
NumWakers   == 2    \* distinct wakers (tasks) of SpecTimer and SpecMutex
MaxTasks    == 3    \* tasks of SpecRt, the root included
MaxOps      == 2    \* operations a task of SpecRt executes before it completes
MaxLockIds  == 3    \* LockFutures created per mutex (next_waiter_id)
MaxCondWaits == 2   \* CondWait futures created
MaxCondWaiters == 2 \* entries of the condition variable's waiter list

START_TIME == 0

Wakers == 1..NumWakers
Durations == 0..MaxDur

(***************************************************************************)
(* Sequence helpers.                                                       *)
(***************************************************************************)
Swap(s, i, j) == [s EXCEPT ![i] = s[j], ![j] = s[i]]

RemoveAt(s, i) == SubSeq(s, 1, i - 1) \o SubSeq(s, i + 1, Len(s))

IsPrefix(s, t) == Len(s) <= Len(t) /\ SubSeq(t, 1, Len(s)) = s

RECURSIVE SeqMin(_)
SeqMin(s) ==
    IF Len(s) = 1 THEN s[1]
    ELSE LET m == SeqMin(Tail(s)) IN IF s[1] <= m THEN s[1] ELSE m

(***************************************************************************)
(* The waker: RcWrapper::wake_by_ref pushes the task onto the ready queue, *)
(* whether or not it is queued already.                                    *)
(***************************************************************************)
WakeByRef(q, t) == Append(q, t)

(***************************************************************************)
(* std's BinaryHeap over Reverse<TimeEvent>: TimeEvent is ordered by       *)
(* wake_time alone, Reverse turns the max-heap into a min-heap.  The heap  *)
(* is its backing Vec; position p has its parent at p \div 2 and its       *)
(* children at 2p and 2p+1 (1-based).                                      *)
(***************************************************************************)
RECURSIVE SiftUp(_, _, _)
SiftUpNoMove(data, start, pos) == data

SiftUp(data, start, pos) ==
    IF pos > start
    THEN LET parent == pos \div 2 IN
         \* hole <= parent in Reverse order: stop
         IF data[pos].wake_time >= data[parent].wake_time
         THEN data
         ELSE SiftUp(Swap(data, pos, parent), start, parent)
    ELSE data

\* sift_down_to_bottom without its last step (the hole has a left child only)
RECURSIVE SiftDownToBottomNoLast(_, _)
SiftDownToBottomNoLast(data, pos) ==
    LET l == 2 * pos
        r == 2 * pos + 1
    IN  IF r <= Len(data)
        THEN LET c == IF data[r].wake_time <= data[l].wake_time THEN r ELSE l
             IN  SiftDownToBottomNoLast(Swap(data, pos, c), c)
        ELSE [data |-> data, pos |-> pos]

RECURSIVE SiftDownToBottom(_, _)
SiftDownToBottom(data, pos) ==
    LET n == Len(data)
        l == 2 * pos
        r == 2 * pos + 1
    IN  IF r <= n
        THEN \* the greater child in Reverse order; the right one on a tie
             LET c == IF data[r].wake_time <= data[l].wake_time THEN r ELSE l
             IN  SiftDownToBottom(Swap(data, pos, c), c)
        ELSE IF l = n
        THEN [data |-> Swap(data, pos, l), pos |-> l]
        ELSE [data |-> data, pos |-> pos]

HeapPush(h, e) == SiftUp(Append(h, e), 1, Len(h) + 1)

HeapPopLast(h) == [item |-> h[Len(h)], heap |-> SubSeq(h, 1, Len(h) - 1)]

HeapPop(h) ==
    LET last == h[Len(h)]
        rest == SubSeq(h, 1, Len(h) - 1)
    IN  IF rest = <<>>
        THEN [item |-> last, heap |-> <<>>]
        ELSE LET s == SiftDownToBottom([rest EXCEPT ![1] = last], 1)
             IN  [item |-> rest[1], heap |-> SiftUp(s.data, 1, s.pos)]

(***************************************************************************)
(* Timer::sleep_for and SleepFut::poll.                                    *)
(***************************************************************************)
WakeTime(now, d) == now + d

SleepReadyEarly(now, wake_time) == now + 1 >= wake_time

SleepReady(now, wake_time) == now >= wake_time

\* Timer::sleep_for(d): the token records wake_time = now + d and is not
\* enqueued.
SleepFor(d) ==
    /\ pc = "api"
    /\ Cardinality(sleeps) < MaxSleeps
    /\ LET wake_time == WakeTime(current_time, d) IN
       /\ wake_time >= current_time          \* the assert of sleep_for
       /\ wake_time <= MaxTime
       /\ sleeps' = sleeps \cup {[t0 |-> current_time, d |-> d,
                                  wake_time |-> wake_time]}
    /\ UNCHANGED <<pc, timerVars, ready_tasks, mutexVars, rtVars>>

\* SleepFut::poll of token s with the waker of task w: any task may poll at
\* any time (it may have been woken by any other source).
PollSleep(s, w) ==
    /\ pc = "api"
    /\ IF SleepReady(current_time, s.wake_time)
       THEN /\ sleeps' = sleeps \ {s}          \* Ready: the token is consumed
            /\ UNCHANGED time_events
       ELSE /\ Len(time_events) < MaxHeap
            /\ time_events' = HeapPush(time_events,
                                  [wake_time |-> s.wake_time, waker |-> w])
            /\ UNCHANGED sleeps
    /\ UNCHANGED <<pc, current_time, ready_tasks, mutexVars, rtVars>>

\* Timer::advance on a non-empty heap.
AdvancePop ==
    /\ time_events # <<>>
    /\ LET p == HeapPop(time_events) IN
       /\ current_time' = p.item.wake_time
       /\ time_events' = p.heap
       /\ ready_tasks' = WakeByRef(ready_tasks, p.item.waker)

\* Timer::advance on an empty heap: panic!("No time event left").
AdvanceEmpty ==
    /\ time_events = <<>>
    /\ pc' = "panicked"
    /\ UNCHANGED <<timerVars, ready_tasks>>

Advance ==
    /\ pc = "api"
    /\ \/ Len(ready_tasks) < MaxReady /\ AdvancePop /\ UNCHANGED pc
       \/ AdvanceEmpty
    /\ UNCHANGED <<sleepVars, mutexVars, rtVars>>

\* The executor takes the ready queue by value (execute_tasks' mem::take);
\* in the API-level specifications the tasks it then polls are the callers.
TakeReady ==
    /\ pc = "api"
    /\ ready_tasks # <<>>
    /\ ready_tasks' = <<>>
    /\ UNCHANGED <<pc, timerVars, sleepVars, mutexVars, rtVars>>

(***************************************************************************)
(* The async Mutex and the Condvar (sync/mutex.rs).                        *)
(***************************************************************************)
HasWaiter(ws, id) == \E i \in 1..Len(ws) : ws[i].id = id

\* waiters.remove(idx) for the first entry with this identifier
RemoveWaiter(ws, id) ==
    IF HasWaiter(ws, id)
    THEN RemoveAt(ws, CHOOSE i \in 1..Len(ws) :
                        /\ ws[i].id = id
                        /\ \A j \in 1..(i - 1) : ws[j].id # id)
    ELSE ws

\* LockFuture::poll that hands out the guard without marking the mutex locked
LockFuturePollNoMark(id, w) ==
    IF ~is_locked
    THEN [ready |-> TRUE, is_locked |-> FALSE, waiters |-> RemoveWaiter(waiters, id)]
    ELSE [ready |-> FALSE, is_locked |-> TRUE,
          waiters |-> IF HasWaiter(waiters, id) THEN waiters
                      ELSE Append(waiters, [id |-> id, waker |-> w])]

\* LockFuture::poll of the future with this identifier, polled by task w
LockFuturePoll(id, w) ==
    IF ~is_locked
    THEN [ready |-> TRUE, is_locked |-> TRUE, waiters |-> RemoveWaiter(waiters, id)]
    ELSE [ready |-> FALSE, is_locked |-> TRUE,
          waiters |-> IF HasWaiter(waiters, id) THEN waiters
                      ELSE Append(waiters, [id |-> id, waker |-> w])]

\* Drop for LockGuard: unlock, wake the first waiter if there is one
GuardDropWakes(ws, q) ==
    IF ws # <<>> THEN WakeByRef(q, ws[1].waker) ELSE q

\* task w is suspended on a LockFuture or on a CondWait; a task awaits one
\* future at a time
Awaiting(w) ==
    \/ \E f \in lock_futs : f.owner = w
    \/ \E c \in 1..Len(cond_waits) :
          cond_waits[c].owner = w /\ ~cond_waits[c].resolved

\* Mutex::lock: a LockFuture with the next identifier
MLock(w) ==
    /\ pc = "api"
    /\ ~Awaiting(w)
    /\ next_waiter_id < MaxLockIds
    /\ lock_futs' = lock_futs \cup {[id |-> next_waiter_id, owner |-> w]}
    /\ next_waiter_id' = next_waiter_id + 1
    /\ UNCHANGED <<pc, timerVars, ready_tasks, sleepVars, is_locked, waiters,
                   guards, cond_waiters, cond_waits, rtVars>>

MPollLock(f) ==
    /\ pc = "api"
    /\ LET r == LockFuturePoll(f.id, f.owner) IN
       /\ is_locked' = r.is_locked
       /\ waiters' = r.waiters
       /\ guards' = IF r.ready THEN guards \cup {f.id} ELSE guards
       /\ lock_futs' = IF r.ready THEN lock_futs \ {f} ELSE lock_futs
    /\ UNCHANGED <<pc, timerVars, ready_tasks, sleepVars, next_waiter_id,
                   cond_waiters, cond_waits, rtVars>>

MDropGuard(g) ==
    /\ pc = "api"
    /\ Len(ready_tasks) < MaxReady
    /\ guards' = guards \ {g}
    /\ is_locked' = FALSE
    /\ ready_tasks' = GuardDropWakes(waiters, ready_tasks)
    /\ UNCHANGED <<pc, timerVars, sleepVars, next_waiter_id, waiters, lock_futs,
                   cond_waiters, cond_waits, rtVars>>

\* a pending LockFuture is dropped: LockFuture has no Drop, the entry it may
\* have pushed onto the waiter list stays there
MCancel(f) ==
    /\ pc = "api"
    /\ lock_futs' = lock_futs \ {f}
    /\ UNCHANGED <<pc, timerVars, ready_tasks, sleepVars, is_locked, next_waiter_id,
                   waiters, guards, cond_waiters, cond_waits, rtVars>>

\* Condvar::wait(guard): into_mutex consumes the guard, which drops it
CvWait(g, w) ==
    /\ pc = "api"
    /\ ~Awaiting(w)
    /\ Len(ready_tasks) < MaxReady
    /\ Len(cond_waits) < MaxCondWaits
    /\ guards' = guards \ {g}
    /\ is_locked' = FALSE
    /\ ready_tasks' = GuardDropWakes(waiters, ready_tasks)
    /\ cond_waits' = Append(cond_waits, [woken |-> FALSE, lock_future |-> -1,
                                         owner |-> w, resolved |-> FALSE])
    /\ UNCHANGED <<pc, timerVars, sleepVars, next_waiter_id, waiters, lock_futs,
                   cond_waiters, rtVars>>

\* CondWait::poll, the inner LockFuture exists
CvPollLocking(c) ==
    /\ cond_waits[c].lock_future # -1
    /\ LET r == LockFuturePoll(cond_waits[c].lock_future, cond_waits[c].owner) IN
       /\ is_locked' = r.is_locked
       /\ waiters' = r.waiters
       /\ guards' = IF r.ready THEN guards \cup {cond_waits[c].lock_future} ELSE guards
       /\ cond_waits' = [cond_waits EXCEPT ![c].resolved = r.ready]
    /\ UNCHANGED <<next_waiter_id, cond_waiters>>

\* CondWait::poll, woken, that resolves without looking at the mutex
CvPollWokenNoLock(c) ==
    /\ cond_waits[c].lock_future = -1
    /\ cond_waits[c].woken
    /\ next_waiter_id < MaxLockIds
    /\ next_waiter_id' = next_waiter_id + 1
    /\ is_locked' = TRUE
    /\ guards' = guards \cup {next_waiter_id}
    /\ cond_waits' = [cond_waits EXCEPT ![c].resolved = TRUE]
    /\ UNCHANGED <<waiters, cond_waiters>>

\* CondWait::poll, woken: lock() and poll the new LockFuture
CvPollWoken(c) ==
    /\ cond_waits[c].lock_future = -1
    /\ cond_waits[c].woken
    /\ next_waiter_id < MaxLockIds
    /\ next_waiter_id' = next_waiter_id + 1
    /\ LET r == LockFuturePoll(next_waiter_id, cond_waits[c].owner) IN
       /\ is_locked' = r.is_locked
       /\ waiters' = r.waiters
       /\ guards' = IF r.ready THEN guards \cup {next_waiter_id} ELSE guards
       /\ cond_waits' = IF r.ready
                        THEN [cond_waits EXCEPT ![c].resolved = TRUE]
                        ELSE [cond_waits EXCEPT ![c].lock_future = next_waiter_id]
    /\ UNCHANGED cond_waiters

\* CondWait::poll, not woken: register on the waiter list
CvPollRegister(c) ==
    /\ cond_waits[c].lock_future = -1
    /\ ~cond_waits[c].woken
    /\ Len(cond_waiters) < MaxCondWaiters
    /\ cond_waiters' = Append(cond_waiters, [cw |-> c, waker |-> cond_waits[c].owner])
    /\ UNCHANGED <<is_locked, waiters, guards, next_waiter_id, cond_waits>>

CvPoll(c) ==
    /\ pc = "api"
    /\ ~cond_waits[c].resolved
    /\ \/ CvPollLocking(c)
       \/ CvPollWoken(c)
       \/ CvPollRegister(c)
    /\ UNCHANGED <<pc, timerVars, ready_tasks, sleepVars, lock_futs, rtVars>>

\* the entries of a waiter list whose flag is not set yet
NotWoken(ws, cws) == {i \in 1..Len(ws) : ~cws[ws[i].cw].woken}

\* notify_one that goes through the list from its end: the latest entry not
\* yet woken is flagged and woken
NotifyOneLast ==
    /\ pc = "api"
    /\ Len(ready_tasks) < MaxReady
    /\ LET nw == NotWoken(cond_waiters, cond_waits) IN
       IF nw = {}
       THEN /\ cond_waiters' = <<>>
            /\ UNCHANGED <<cond_waits, ready_tasks>>
       ELSE LET i == CHOOSE k \in nw : \A j \in nw : k >= j IN
            /\ cond_waits' = [cond_waits EXCEPT ![cond_waiters[i].cw].woken = TRUE]
            /\ ready_tasks' = WakeByRef(ready_tasks, cond_waiters[i].waker)
            /\ cond_waiters' = SubSeq(cond_waiters, 1, i - 1)
    /\ UNCHANGED <<pc, timerVars, sleepVars, is_locked, next_waiter_id, waiters,
                   guards, lock_futs, rtVars>>

\* Condvar::notify_one: the entries up to the first one not yet woken are
\* consumed, that one is flagged and woken, the rest is put back
NotifyOne ==
    /\ pc = "api"
    /\ Len(ready_tasks) < MaxReady
    /\ LET nw == NotWoken(cond_waiters, cond_waits) IN
       IF nw = {}
       THEN /\ cond_waiters' = <<>>
            /\ UNCHANGED <<cond_waits, ready_tasks>>
       ELSE LET i == CHOOSE k \in nw : \A j \in nw : k <= j IN
            /\ cond_waits' = [cond_waits EXCEPT ![cond_waiters[i].cw].woken = TRUE]
            /\ ready_tasks' = WakeByRef(ready_tasks, cond_waiters[i].waker)
            /\ cond_waiters' = SubSeq(cond_waiters, i + 1, Len(cond_waiters))
    /\ UNCHANGED <<pc, timerVars, sleepVars, is_locked, next_waiter_id, waiters,
                   guards, lock_futs, rtVars>>

RECURSIVE NotifyAllFrom(_, _, _)
\* Condvar::notify_all over the drained list ws: [cws, q]
NotifyAllFrom(ws, cws, q) ==
    IF ws = <<>> THEN [cws |-> cws, q |-> q]
    ELSE IF cws[ws[1].cw].woken
    THEN NotifyAllFrom(Tail(ws), cws, q)
    ELSE NotifyAllFrom(Tail(ws), [cws EXCEPT ![ws[1].cw].woken = TRUE],
                       WakeByRef(q, ws[1].waker))

NotifyAll ==
    /\ pc = "api"
    /\ Len(ready_tasks) < MaxReady
    /\ LET r == NotifyAllFrom(cond_waiters, cond_waits, ready_tasks) IN
       /\ cond_waits' = r.cws
       /\ ready_tasks' = r.q
       /\ cond_waiters' = <<>>
    /\ UNCHANGED <<pc, timerVars, sleepVars, is_locked, next_waiter_id, waiters,
                   guards, lock_futs, rtVars>>

(***************************************************************************)
(* SyncCondvar::wait_with_timeout (sync/sync_mutex.rs).  The SyncCondvar   *)
(* keeps the same waiter list as the Condvar and its notify_one and        *)
(* notify_all are the same code, so the list and the waits are kept in     *)
(* cond_waiters and cond_waits.  A SyncLockGuard is not held across an     *)
(* await (the contract of SyncMutex), so SyncMutex::lock succeeds at a     *)
(* poll.                                                                   *)
(***************************************************************************)
\* SyncCondvar::wait_with_timeout(guard, d) by task w: a zero timeout fails
\* the assert; otherwise the wait holds a SleepFut made by sleep(d)
SyncWaitTimeout(w, d) ==
    /\ pc = "api"
    /\ ~Awaiting(w)
    /\ Len(cond_waits) < MaxCondWaits
    /\ WakeTime(current_time, d) <= MaxTime
    /\ IF d = 0
       THEN pc' = "panicked" /\ UNCHANGED cond_waits
       ELSE /\ cond_waits' = Append(cond_waits,
                   [woken |-> FALSE, owner |-> w, resolved |-> FALSE,
                    timed_out |-> FALSE, t0 |-> current_time, d |-> d,
                    wake_time |-> WakeTime(current_time, d)])
            /\ UNCHANGED pc
    /\ UNCHANGED <<timerVars, ready_tasks, sleepVars, is_locked, next_waiter_id,
                   waiters, guards, lock_futs, cond_waiters, rtVars>>

\* SyncCondTimeoutWait::poll that does not poll its SleepFut when it is
\* not yet time
SyncTimeoutPollNoTimer(c) ==
    /\ pc = "api"
    /\ ~cond_waits[c].resolved
    /\ IF cond_waits[c].woken
       THEN /\ cond_waits' = [cond_waits EXCEPT ![c].resolved = TRUE]
            /\ UNCHANGED <<time_events, cond_waiters>>
       ELSE IF SleepReady(current_time, cond_waits[c].wake_time)
       THEN /\ cond_waits' = [cond_waits EXCEPT ![c].resolved = TRUE,
                                                ![c].timed_out = TRUE]
            /\ UNCHANGED <<time_events, cond_waiters>>
       ELSE /\ Len(cond_waiters) < MaxCondWaiters
            /\ cond_waiters' = Append(cond_waiters,
                                      [cw |-> c, waker |-> cond_waits[c].owner])
            /\ UNCHANGED <<time_events, cond_waits>>
    /\ UNCHANGED <<pc, current_time, ready_tasks, sleepVars, is_locked,
                   next_waiter_id, waiters, guards, lock_futs, rtVars>>

\* SyncCondTimeoutWait::poll: Ready if the flag is set; Ready if the
\* SleepFut is; otherwise the SleepFut has pushed a timer entry, the wait
\* registers on the waiter list and is Pending
SyncTimeoutPoll(c) ==
    /\ pc = "api"
    /\ ~cond_waits[c].resolved
    /\ IF cond_waits[c].woken
       THEN /\ cond_waits' = [cond_waits EXCEPT ![c].resolved = TRUE]
            /\ UNCHANGED <<time_events, cond_waiters>>
       ELSE IF SleepReady(current_time, cond_waits[c].wake_time)
       THEN /\ cond_waits' = [cond_waits EXCEPT ![c].resolved = TRUE,
                                                ![c].timed_out = TRUE]
            /\ UNCHANGED <<time_events, cond_waiters>>
       ELSE /\ Len(time_events) < MaxHeap
            /\ Len(cond_waiters) < MaxCondWaiters
            /\ time_events' = HeapPush(time_events,
                                  [wake_time |-> cond_waits[c].wake_time,
                                   waker |-> cond_waits[c].owner])
            /\ cond_waiters' = Append(cond_waiters,
                                      [cw |-> c, waker |-> cond_waits[c].owner])
            /\ UNCHANGED cond_waits
    /\ UNCHANGED <<pc, current_time, ready_tasks, sleepVars, is_locked,
                   next_waiter_id, waiters, guards, lock_futs, rtVars>>

(***************************************************************************)
(* The mpsc channel (sync/mpsc.rs).                                        *)
(***************************************************************************)
\* Sender::send: push the message, wake the stored waker if there is one
SendWakes(q, waker) == IF waker # 0 THEN WakeByRef(q, waker) ELSE q

(***************************************************************************)
(* The executor and block_on (runtime.rs, task.rs).  A task is a future    *)
(* that executes up to MaxOps operations, each drawn freely: spawn a task, *)
(* send on the channel, sleep, receive from the channel (the root owns the *)
(* receiver), yield (wake itself and return Pending once).                 *)
(***************************************************************************)
Root == 1

NoAwait == [kind |-> "none", wake_time |-> 0]

NewTask == [future |-> TRUE, await |-> NoAwait, ops |-> MaxOps]

\* Runtime::spawn, Handle::spawn: a new task is pushed onto the ready queue
Spawn(q, t) == Append(q, t)

LogRoot(op) == IF cur = Root THEN Append(root_log, op) ELSE root_log

\* block_on wraps the root future, makes it a task and pushes it
BlockOn ==
    /\ pc = "init"
    /\ tasks' = <<NewTask>>
    /\ ready_tasks' = Spawn(ready_tasks, Root)
    /\ pc' = "loop"
    /\ UNCHANGED <<timerVars, sleepVars, mutexVars, done, taken, context, cur,
                   messages, recv_waker, root_log, passVars, context_locks,
                   netVars, netLogs, chanLogs, auxVars>>

\* while !*done.borrow()
LoopCheck ==
    /\ pc = "loop"
    /\ pc' = IF done THEN "returned" ELSE "exec"
    /\ UNCHANGED <<timerVars, ready_tasks, sleepVars, mutexVars, rtVars>>

\* ContextLock::new that installs the handle without looking at the slot
ContextLockNewUnchecked(ctx) == [panic |-> FALSE, context |-> TRUE]

\* ContextLock::new: panics if the slot holds a handle, installs one otherwise
ContextLockNew(ctx) == [panic |-> ctx, context |-> TRUE]

\* execute_tasks up to its loop: take the ready queue; return false (the
\* caller goes on at onEmpty) if it is empty, install the context otherwise
ExecuteTasksTake(onEmpty) ==
    /\ taken' = ready_tasks
    /\ ready_tasks' = <<>>
    /\ pass_queue' = ready_tasks
    /\ polled' = <<>>
    /\ IF ready_tasks = <<>>
       THEN pc' = onEmpty /\ UNCHANGED <<context, context_locks,
                   netVars, netLogs, chanLogs, auxVars>>
       ELSE LET r == ContextLockNew(context) IN
            IF r.panic
            THEN pc' = "panicked" /\ UNCHANGED <<context, context_locks,
                   netVars, netLogs, chanLogs, auxVars>>
            ELSE /\ pc' = "pass"
                 /\ context' = r.context
                 /\ context_locks' = context_locks + 1

\* block_on calls execute_tasks; it ignores the result and advances the timer
ExecuteTasksBegin ==
    /\ pc = "exec"
    /\ ExecuteTasksTake("advance")
    /\ UNCHANGED <<timerVars, sleepVars, mutexVars, done, tasks, cur,
                   messages, recv_waker, root_log,
                   netVars, netLogs, chanLogs, auxVars>>

\* the pass goes on to poll whatever the live ready queue holds
PollNextLive ==
    /\ pc = "pass"
    /\ cur = 0
    /\ LET live == taken = <<>>
           src == IF live THEN ready_tasks ELSE taken
       IN
       /\ src # <<>>
       /\ taken' = IF live THEN taken ELSE Tail(taken)
       /\ ready_tasks' = IF live THEN Tail(ready_tasks) ELSE ready_tasks
       /\ IF tasks[Head(src)].future
          THEN cur' = Head(src) /\ pc' = "poll" /\ polled' = Append(polled, Head(src))
          ELSE UNCHANGED <<cur, pc, polled>>
    /\ UNCHANGED <<timerVars, sleepVars, mutexVars, done, context,
                   tasks, messages, recv_waker, root_log, pass_queue, context_locks,
                   netVars, netLogs, chanLogs, auxVars>>

\* the pass polls the task of the next entry whether or not its slot is None
PollNextAny ==
    /\ pc = "pass"
    /\ cur = 0
    /\ taken # <<>>
    /\ taken' = Tail(taken)
    /\ cur' = Head(taken)
    /\ pc' = "poll"
    /\ polled' = Append(polled, Head(taken))
    /\ UNCHANGED <<timerVars, ready_tasks, sleepVars, mutexVars, done, context,
                   tasks, messages, recv_waker, root_log, pass_queue, context_locks,
                   netVars, netLogs, chanLogs, auxVars>>

\* the pass takes its entries from the back of the Vec
PollNextLast ==
    /\ pc = "pass"
    /\ cur = 0
    /\ taken # <<>>
    /\ taken' = SubSeq(taken, 1, Len(taken) - 1)
    /\ IF tasks[taken[Len(taken)]].future
       THEN /\ cur' = taken[Len(taken)]
            /\ pc' = "poll"
            /\ polled' = Append(polled, taken[Len(taken)])
       ELSE UNCHANGED <<cur, pc, polled>>
    /\ UNCHANGED <<timerVars, ready_tasks, sleepVars, mutexVars, done, context,
                   tasks, messages, recv_waker, root_log, pass_queue, context_locks,
                   netVars, netLogs, chanLogs, auxVars>>

\* the next task of the pass: its slot is taken and polled, or is None
PollNext ==
    /\ pc = "pass"
    /\ cur = 0
    /\ taken # <<>>
    /\ taken' = Tail(taken)
    /\ IF tasks[Head(taken)].future
       THEN cur' = Head(taken) /\ pc' = "poll" /\ polled' = Append(polled, Head(taken))
       ELSE UNCHANGED <<cur, pc, polled>>
    /\ UNCHANGED <<timerVars, ready_tasks, sleepVars, mutexVars, done, context,
                   tasks, messages, recv_waker, root_log, pass_queue, context_locks,
                   netVars, netLogs, chanLogs, auxVars>>

\* the polled future resumes at the await it is suspended on
ResumeSleep ==
    /\ tasks[cur].await.kind = "sleep"
    /\ IF SleepReady(current_time, tasks[cur].await.wake_time)
       THEN /\ tasks' = [tasks EXCEPT ![cur].await = NoAwait]
            /\ UNCHANGED <<time_events, cur, pc>>
       ELSE /\ Len(time_events) < MaxHeap
            /\ time_events' = HeapPush(time_events,
                   [wake_time |-> tasks[cur].await.wake_time, waker |-> cur])
            /\ cur' = 0
            /\ pc' = "pass"
            /\ UNCHANGED tasks
    /\ UNCHANGED <<messages, recv_waker>>

ResumeRecv ==
    /\ tasks[cur].await.kind = "recv"
    /\ IF messages = <<>>
       THEN /\ recv_waker' = cur
            /\ cur' = 0
            /\ pc' = "pass"
            /\ UNCHANGED <<tasks, messages>>
       ELSE /\ messages' = <<>>
            /\ tasks' = [tasks EXCEPT ![cur].await = NoAwait]
            /\ UNCHANGED <<recv_waker, cur, pc>>
    /\ UNCHANGED time_events

ResumeYield ==
    /\ tasks[cur].await.kind = "yield"
    /\ tasks' = [tasks EXCEPT ![cur].await = NoAwait]
    /\ UNCHANGED <<time_events, messages, recv_waker, cur, pc>>

Resume ==
    /\ pc = "poll"
    /\ \/ ResumeSleep
       \/ ResumeRecv
       \/ ResumeYield
    /\ UNCHANGED <<current_time, ready_tasks, sleepVars, mutexVars, done, taken,
                   context, root_log, passVars, context_locks,
                   netVars, netLogs, chanLogs, auxVars>>

Running == pc = "poll" /\ tasks[cur].await.kind = "none" /\ tasks[cur].ops > 0

\* asim::spawn(child)
OpSpawn ==
    /\ Running
    /\ Len(tasks) < MaxTasks
    /\ tasks' = Append([tasks EXCEPT ![cur].ops = @ - 1], NewTask)
    /\ ready_tasks' = Spawn(ready_tasks, Len(tasks) + 1)
    /\ root_log' = LogRoot([op |-> "spawn", d |-> 0])
    /\ UNCHANGED <<pc, timerVars, sleepVars, mutexVars, done, taken, context, cur,
                   messages, recv_waker, passVars, context_locks,
                   netVars, netLogs, chanLogs, auxVars>>

\* sender.send(msg)
OpSend ==
    /\ Running
    /\ messages' = Append(messages, cur)
    /\ ready_tasks' = SendWakes(ready_tasks, recv_waker)
    /\ recv_waker' = 0
    /\ tasks' = [tasks EXCEPT ![cur].ops = @ - 1]
    /\ root_log' = LogRoot([op |-> "send", d |-> 0])
    /\ UNCHANGED <<pc, timerVars, sleepVars, mutexVars, done, taken, context, cur,
                   passVars, context_locks,
                   netVars, netLogs, chanLogs, auxVars>>

\* sleep(d).await: sleep_for, then the first poll of the SleepFut
OpSleep(d) ==
    /\ Running
    /\ root_log' = LogRoot([op |-> "sleep", d |-> d])
    /\ LET wake_time == WakeTime(current_time, d) IN
       IF SleepReady(current_time, wake_time)
       THEN /\ tasks' = [tasks EXCEPT ![cur].ops = @ - 1]
            /\ UNCHANGED <<time_events, cur, pc>>
       ELSE /\ Len(time_events) < MaxHeap
            /\ time_events' = HeapPush(time_events,
                                  [wake_time |-> wake_time, waker |-> cur])
            /\ tasks' = [tasks EXCEPT ![cur].ops = @ - 1,
                                      ![cur].await = [kind |-> "sleep",
                                                      wake_time |-> wake_time]]
            /\ cur' = 0
            /\ pc' = "pass"
    /\ UNCHANGED <<current_time, ready_tasks, sleepVars, mutexVars, done, taken,
                   context, messages, recv_waker, passVars, context_locks,
                   netVars, netLogs, chanLogs, auxVars>>

\* receiver.recv().await: the first poll of the GetFut
OpRecv ==
    /\ Running
    /\ cur = Root
    /\ root_log' = LogRoot([op |-> "recv", d |-> 0])
    /\ IF messages = <<>>
       THEN /\ recv_waker' = cur
            /\ tasks' = [tasks EXCEPT ![cur].ops = @ - 1,
                                      ![cur].await = [kind |-> "recv", wake_time |-> 0]]
            /\ cur' = 0
            /\ pc' = "pass"
            /\ UNCHANGED messages
       ELSE /\ messages' = <<>>
            /\ tasks' = [tasks EXCEPT ![cur].ops = @ - 1]
            /\ UNCHANGED <<recv_waker, cur, pc>>
    /\ UNCHANGED <<timerVars, ready_tasks, sleepVars, mutexVars, done, taken, context,
                   passVars, context_locks,
                   netVars, netLogs, chanLogs, auxVars>>

\* the task wakes itself and returns Pending once
OpYield ==
    /\ Running
    /\ ready_tasks' = WakeByRef(ready_tasks, cur)
    /\ tasks' = [tasks EXCEPT ![cur].ops = @ - 1,
                              ![cur].await = [kind |-> "yield", wake_time |-> 0]]
    /\ root_log' = LogRoot([op |-> "yield", d |-> 0])
    /\ cur' = 0
    /\ pc' = "pass"
    /\ UNCHANGED <<timerVars, sleepVars, mutexVars, done, taken, context,
                   messages, recv_waker, passVars, context_locks,
                   netVars, netLogs, chanLogs, auxVars>>

\* the future returns Ready: the slot stays None; the root's wrapper sets done
OpFinish ==
    /\ pc = "poll"
    /\ tasks[cur].await.kind = "none"
    /\ tasks' = [tasks EXCEPT ![cur].future = FALSE]
    /\ done' = (done \/ cur = Root)
    /\ cur' = 0
    /\ pc' = "pass"
    /\ UNCHANGED <<timerVars, ready_tasks, sleepVars, mutexVars, taken, context,
                   messages, recv_waker, root_log, passVars, context_locks,
                   netVars, netLogs, chanLogs, auxVars>>

\* the pass is over: drop the context lock, return true
ExecuteTasksEnd ==
    /\ pc = "pass"
    /\ cur = 0
    /\ taken = <<>>
    /\ context' = FALSE
    /\ context_locks' = context_locks - 1
    /\ pc' = "advance"
    /\ UNCHANGED <<timerVars, ready_tasks, sleepVars, mutexVars, done, taken, tasks,
                   cur, messages, recv_waker, root_log, passVars,
                   netVars, netLogs, chanLogs, auxVars>>

\* advance() on an empty heap that returns instead of panicking
TimerAdvanceQuiet ==
    /\ pc = "advance"
    /\ \/ AdvancePop /\ pc' = "loop"
       \/ time_events = <<>> /\ pc' = "loop" /\ UNCHANGED <<timerVars, ready_tasks>>
    /\ UNCHANGED <<sleepVars, mutexVars, rtVars>>

\* block_on's self.timer.advance()
TimerAdvance ==
    /\ pc = "advance"
    /\ \/ AdvancePop /\ pc' = "loop"
       \/ AdvanceEmpty
    /\ UNCHANGED <<sleepVars, mutexVars, rtVars>>

(***************************************************************************)
(* The runtime driven by hand, as the tests of the repository do: the      *)
(* driving code calls Runtime::spawn, with_context, execute_tasks and      *)
(* Timer::advance itself, and it can take and release the mutex between    *)
(* two passes.  A task can also lock the mutex (the guard is dropped at    *)
(* the end of the statement that took it).                                 *)
(***************************************************************************)
\* Runtime::spawn called by the driving code
RtSpawn ==
    /\ pc = "api"
    /\ Len(tasks) < MaxTasks
    /\ Len(ready_tasks) < MaxReady
    /\ tasks' = Append(tasks, NewTask)
    /\ ready_tasks' = Spawn(ready_tasks, Len(tasks) + 1)
    /\ UNCHANGED <<pc, timerVars, sleepVars, mutexVars, done, taken, context, cur,
                   messages, recv_waker, root_log, passVars, context_locks,
                   netVars, netLogs, chanLogs, auxVars>>

\* Runtime::with_context: the driving code keeps the ContextLock it gets
WithContext ==
    /\ pc = "api"
    /\ LET r == ContextLockNew(context) IN
       IF r.panic
       THEN pc' = "panicked" /\ UNCHANGED <<context, context_locks,
                   netVars, netLogs, chanLogs, auxVars>>
       ELSE /\ context' = r.context
            /\ context_locks' = context_locks + 1
            /\ UNCHANGED pc
    /\ UNCHANGED <<timerVars, ready_tasks, sleepVars, mutexVars, done, taken, tasks,
                   cur, messages, recv_waker, root_log, passVars,
                   netVars, netLogs, chanLogs, auxVars>>

\* Drop for ContextLock, of a lock the driving code holds
DropContextLock ==
    /\ pc = "api"
    /\ context_locks > 0
    /\ context' = FALSE
    /\ context_locks' = context_locks - 1
    /\ UNCHANGED <<pc, timerVars, ready_tasks, sleepVars, mutexVars, done, taken,
                   tasks, cur, messages, recv_waker, root_log, passVars,
                   netVars, netLogs, chanLogs, auxVars>>

\* the driving code calls execute_tasks
ExecuteTasksCall ==
    /\ pc = "api"
    /\ ExecuteTasksTake("api")
    /\ UNCHANGED <<timerVars, sleepVars, mutexVars, done, tasks, cur,
                   messages, recv_waker, root_log,
                   netVars, netLogs, chanLogs, auxVars>>

\* the pass is over: drop the context lock, return true to the driving code
ExecuteTasksReturn ==
    /\ pc = "pass"
    /\ cur = 0
    /\ taken = <<>>
    /\ context' = FALSE
    /\ context_locks' = context_locks - 1
    /\ pc' = "api"
    /\ UNCHANGED <<timerVars, ready_tasks, sleepVars, mutexVars, done, taken, tasks,
                   cur, messages, recv_waker, root_log, passVars,
                   netVars, netLogs, chanLogs, auxVars>>

\* the driving code takes the free mutex: lock() and one poll of the future
UserLock ==
    /\ pc = "api"
    /\ ~is_locked
    /\ next_waiter_id < MaxLockIds
    /\ LET r == LockFuturePoll(next_waiter_id, 0) IN
       /\ is_locked' = r.is_locked
       /\ waiters' = r.waiters
    /\ guards' = guards \cup {next_waiter_id}
    /\ next_waiter_id' = next_waiter_id + 1
    /\ UNCHANGED <<pc, timerVars, ready_tasks, sleepVars, lock_futs, cond_waiters,
                   cond_waits, rtVars>>

\* { mutex.lock().await; } in a task: the first poll of the LockFuture; the
\* guard it may return is dropped at once
OpLock ==
    /\ Running
    /\ next_waiter_id < MaxLockIds
    /\ next_waiter_id' = next_waiter_id + 1
    /\ LET r == LockFuturePoll(next_waiter_id, cur) IN
       /\ waiters' = r.waiters
       /\ IF r.ready
          THEN /\ is_locked' = FALSE
               /\ ready_tasks' = GuardDropWakes(r.waiters, ready_tasks)
               /\ tasks' = [tasks EXCEPT ![cur].ops = @ - 1]
               /\ UNCHANGED <<cur, pc>>
          ELSE /\ is_locked' = r.is_locked
               /\ tasks' = [tasks EXCEPT ![cur].ops = @ - 1,
                                         ![cur].await = [kind |-> "lock",
                                                         wake_time |-> next_waiter_id]]
               /\ cur' = 0
               /\ pc' = "pass"
               /\ UNCHANGED ready_tasks
    /\ root_log' = LogRoot([op |-> "lock", d |-> 0])
    /\ UNCHANGED <<timerVars, sleepVars, guards, lock_futs, cond_waiters, cond_waits,
                   done, taken, context, messages, recv_waker, passVars,
                   context_locks,
                   netVars, netLogs, chanLogs, auxVars>>

\* a task suspended on its LockFuture is polled again (the await record
\* keeps the future's identifier in its second field)
ResumeLock ==
    /\ pc = "poll"
    /\ tasks[cur].await.kind = "lock"
    /\ LET r == LockFuturePoll(tasks[cur].await.wake_time, cur) IN
       /\ waiters' = r.waiters
       /\ IF r.ready
          THEN /\ is_locked' = FALSE
               /\ ready_tasks' = GuardDropWakes(r.waiters, ready_tasks)
               /\ tasks' = [tasks EXCEPT ![cur].await = NoAwait]
               /\ UNCHANGED <<cur, pc>>
          ELSE /\ is_locked' = r.is_locked
               /\ cur' = 0
               /\ pc' = "pass"
               /\ UNCHANGED <<ready_tasks, tasks>>
    /\ UNCHANGED <<timerVars, sleepVars, next_waiter_id, guards, lock_futs,
                   cond_waiters, cond_waits, done, taken, context, messages,
                   recv_waker, root_log, passVars, context_locks,
                   netVars, netLogs, chanLogs, auxVars>>

(***************************************************************************)
(* Initial values.                                                         *)
(***************************************************************************)
InitTimerVars ==
    /\ current_time = START_TIME
    /\ time_events = <<>>
    /\ ready_tasks = <<>>

InitMutexVars ==
    /\ is_locked = FALSE
    /\ next_waiter_id = 0
    /\ waiters = <<>>
    /\ guards = {}
    /\ lock_futs = {}
    /\ cond_waiters = <<>>
    /\ cond_waits = <<>>

\* no Duration or Time value has been made
NoConv == [type |-> "none", unit |-> "none", n |-> 0, value |-> 0,
           read |-> "none", out |-> 0]

InitRtVars ==
    /\ done = FALSE
    /\ taken = <<>>
    /\ context = FALSE
    /\ tasks = <<>>
    /\ cur = 0
    /\ messages = <<>>
    /\ recv_waker = 0
    /\ root_log = <<>>
    /\ polled = <<>>
    /\ pass_queue = <<>>
    /\ context_locks = 0
    /\ network_links = <<>>
    /\ bandwidth = <<>>
    /\ links = <<>>
    /\ inbox = <<>>
    /\ inbox_waker = <<>>
    /\ batch = <<>>
    /\ roles = <<>>
    /\ next_msg = 0
    /\ link_sends = <<>>
    /\ sent_log = <<>>
    /\ enq_log = <<>>
    /\ handle_log = <<>>
    /\ ack_log = <<>>
    /\ ret = "none"
    /\ chan_sent = <<>>
    /\ chan_recv = <<>>
    /\ chan_last = [by |-> 0, buffered |-> <<>>, ready |-> FALSE, batch |-> <<>>,
                    left |-> <<>>, waker |-> 0]
    /\ stopped = 0
    /\ conv = NoConv

(***************************************************************************)
(* SpecTimer: a Timer and its SleepFut tokens, the API called in any order.*)
(***************************************************************************)
InitTimer ==
    /\ pc = "api"
    /\ sleeps = {}
    /\ InitTimerVars /\ InitMutexVars /\ InitRtVars

NextTimer ==
    \/ \E d \in Durations : SleepFor(d)
    \/ \E s \in sleeps, w \in Wakers : PollSleep(s, w)
    \/ Advance
    \/ TakeReady

SpecTimer == InitTimer /\ [][NextTimer]_vars

(***************************************************************************)
(* SpecMutex: one Mutex and one Condvar, the API called in any order.      *)
(***************************************************************************)
InitMutex ==
    /\ pc = "api"
    /\ sleeps = {}
    /\ InitTimerVars /\ InitMutexVars /\ InitRtVars

NextMutex ==
    \/ \E w \in Wakers : MLock(w)
    \/ \E f \in lock_futs : MPollLock(f)
    \/ \E g \in guards : MDropGuard(g)
    \/ \E f \in lock_futs : MCancel(f)
    \/ \E g \in guards, w \in Wakers : CvWait(g, w)
    \/ \E c \in 1..Len(cond_waits) : CvPoll(c)
    \/ NotifyOne
    \/ NotifyAll
    \/ TakeReady

SpecMutex == InitMutex /\ [][NextMutex]_vars

(***************************************************************************)
(* SpecRt: Runtime::new() followed by block_on(root).  block_on is a       *)
(* sequential loop, so a step that can be taken is taken (weak fairness).  *)
(***************************************************************************)
InitRt ==
    /\ pc = "init"
    /\ sleeps = {}
    /\ InitTimerVars /\ InitMutexVars /\ InitRtVars

NextRt ==
    \/ BlockOn
    \/ LoopCheck
    \/ ExecuteTasksBegin
    \/ PollNext
    \/ Resume
    \/ OpSpawn
    \/ OpSend
    \/ \E d \in Durations : OpSleep(d)
    \/ OpRecv
    \/ OpYield
    \/ OpFinish
    \/ ExecuteTasksEnd
    \/ TimerAdvance

SpecRt == InitRt /\ [][NextRt]_vars /\ WF_vars(NextRt)

(***************************************************************************)
(* SpecSync: one SyncCondvar with timed waits and the Timer, the API       *)
(* called in any order.  Each wait is made by a task of its own.           *)
(***************************************************************************)
InitSync ==
    /\ pc = "api"
    /\ sleeps = {}
    /\ InitTimerVars /\ InitMutexVars /\ InitRtVars

NextSync ==
    \/ \E d \in Durations : SyncWaitTimeout(Len(cond_waits) + 1, d)
    \/ \E c \in 1..Len(cond_waits) : SyncTimeoutPoll(c)
    \/ NotifyOne
    \/ NotifyAll
    \/ Advance
    \/ TakeReady

SpecSync == InitSync /\ [][NextSync]_vars

(***************************************************************************)
(* SpecExec: a Runtime driven by hand.                                     *)
(***************************************************************************)
InitExec ==
    /\ pc = "api"
    /\ sleeps = {}
    /\ InitTimerVars /\ InitMutexVars /\ InitRtVars

NextExec ==
    \/ RtSpawn
    \/ WithContext
    \/ DropContextLock
    \/ ExecuteTasksCall
    \/ PollNext
    \/ Resume
    \/ ResumeLock
    \/ OpYield
    \/ OpLock
    \/ OpFinish
    \/ ExecuteTasksReturn
    \/ UserLock
    \/ \E g \in guards : MDropGuard(g)

SpecExec == InitExec /\ [][NextExec]_vars

(***************************************************************************)
(* Properties of the mutex (SpecMutex).                                    *)
(***************************************************************************)
\* C1: at most one LockGuard of the mutex exists at any time, and while one
\* exists the mutex is marked locked, so that every LockFuture polled then
\* returns Pending and a poll returns Ready only when no guard exists.
C1_MutualExclusion ==
    /\ Cardinality(guards) <= 1
    /\ guards # {} => is_locked

\* a guard is held while a woken CondWait is queued behind it as a waiter
C1_Witness ==
    /\ guards # {}
    /\ \E c \in 1..Len(cond_waits) :
          /\ cond_waits[c].lock_future # -1
          /\ HasWaiter(waiters, cond_waits[c].lock_future)

(***************************************************************************)
(* Properties of the timer (SpecTimer).                                    *)
(***************************************************************************)
\* C2: a sleep(d) created at time t0 resolves (its token is consumed by a
\* poll that returns Ready) only at a poll at which now >= t0 + d, whenever
\* and by whomever it is polled.
C2_SleepNotEarly ==
    [][\A s \in sleeps : s \notin sleeps' => current_time >= s.t0 + s.d]_vars

\* every sleep created has resolved, one of them after the timer had woken
\* its task at a later time
C2_Witness ==
    /\ sleeps = {}
    /\ time_events = <<>>
    /\ current_time > START_TIME
    /\ ready_tasks # <<>>

\* C3: the current simulated time never decreases, whatever step is taken.
C3_TimeMonotone == [][current_time' >= current_time]_vars

\* time has advanced twice and a sleep is still pending in the heap
C3_Witness ==
    /\ current_time >= 2
    /\ time_events # <<>>
    /\ sleeps # {}

\* C4: every entry of the timer heap has wake_time >= current_time.
C4_HeapNotInPast ==
    \A i \in 1..Len(time_events) : time_events[i].wake_time >= current_time

\* time has advanced and the heap holds an entry pushed before and one after
C4_Witness ==
    /\ current_time > START_TIME
    /\ Len(time_events) >= 2
    /\ \E s \in sleeps : s.t0 = current_time

MinWake(h) == SeqMin([i \in 1..Len(h) |-> h[i].wake_time])

CountOf(h, e) == Cardinality({i \in 1..Len(h) : h[i] = e})

CountAt(h, t) == Cardinality({i \in 1..Len(h) : h[i].wake_time = t})

\* C9: an advance() on a non-empty heap sets the current time to the least
\* wake_time of the heap, removes exactly one entry, one with that wake_time,
\* and wakes exactly that entry's task; of k entries sharing the least
\* wake_time k-1 remain and are still the least, so that the next advance()
\* wakes another of them and leaves the time as it is.
C9_AdvancePopsMin ==
    [][Len(time_events') < Len(time_events) =>
        LET m == MinWake(time_events) IN
        /\ current_time' = m
        /\ \E i \in 1..Len(time_events) :
              /\ time_events[i].wake_time = m
              /\ ready_tasks' = Append(ready_tasks, time_events[i].waker)
              /\ \A j \in 1..Len(time_events) :
                    CountOf(time_events', time_events[j]) =
                        CountOf(time_events, time_events[j])
                            - (IF time_events[j] = time_events[i] THEN 1 ELSE 0)
        /\ Len(time_events') = Len(time_events) - 1
        /\ CountAt(time_events', m) = CountAt(time_events, m) - 1
        /\ CountAt(time_events, m) > 1 => MinWake(time_events') = m
    ]_vars

\* advance() has woken two tasks and an entry of the time it advanced to is
\* still in the heap, together with a later one
C9_Witness ==
    /\ current_time > START_TIME
    /\ Len(ready_tasks) >= 2
    /\ \E i \in 1..Len(time_events) : time_events[i].wake_time = current_time
    /\ \E i \in 1..Len(time_events) : time_events[i].wake_time > current_time

(***************************************************************************)
(* Properties of block_on and the executor (SpecRt).                       *)
(***************************************************************************)
\* C5: while the root is incomplete block_on does not fail as long as the
\* ready queue is not empty: tasks that are ready are run in a further pass.
C5_NoFailureWhileReady ==
    (pc = "panicked" /\ ~done) => ready_tasks = <<>>

\* C6: once the root has completed block_on returns without calling
\* advance(); for a root that only awaits sleep(d) it returns normally with
\* now() = START_TIME + d.
C6_ReturnsOnceRootDone ==
    /\ done => pc \notin {"advance", "panicked"}
    /\ \A d \in Durations :
          (/\ pc \in {"returned", "panicked"}
           /\ root_log = <<[op |-> "sleep", d |-> d]>>)
          => (pc = "returned" /\ current_time = START_TIME + d)

\* the driver is between two passes, the root is incomplete, and neither a
\* ready task nor a pending timer is left
Deadlocked ==
    /\ pc \in {"loop", "exec", "advance"}
    /\ ~done
    /\ ready_tasks = <<>>
    /\ time_events = <<>>

\* C7: when the root is incomplete and both the ready queue and the timer
\* heap are empty, block_on fails (it panics) instead of looping forever;
\* the advance() that fails finds the heap empty and leaves the time as it is.
C7_DeadlockPanics ==
    /\ Deadlocked ~> (pc = "panicked")
    /\ [][(pc # "panicked" /\ pc' = "panicked") =>
            (time_events = <<>> /\ current_time' = current_time)]_vars

\* block_on has failed after time had advanced: the root waits for a message
\* nobody will send
C7_Witness ==
    /\ pc = "panicked"
    /\ ~done
    /\ ready_tasks = <<>>
    /\ current_time > START_TIME
    /\ tasks[Root].await.kind = "recv"

\* C8: the timer is advanced only after the ready queue has been drained:
\* no task is ready when the simulated time changes, so that every task is
\* polled at the simulated time at which it became ready.
C8_AdvanceOnlyWhenDrained ==
    [][current_time' # current_time => (ready_tasks = <<>> /\ taken = <<>>)]_vars

\* C10: a pass polls the tasks that were in the ready queue when it began,
\* in order, and no others: the pass takes the whole queue and leaves an empty
\* one, each poll is of the head of what was taken, and whatever is spawned
\* or woken during the pass is appended to the new queue, for the next pass.
C10_PassPollsSnapshot ==
    [][/\ pc = "exec" => (taken' = ready_tasks /\ ready_tasks' = <<>>)
       /\ (pc \in {"pass", "poll"} /\ pc' \in {"pass", "poll"}) =>
            /\ taken' = taken \/ (taken # <<>> /\ taken' = Tail(taken))
            /\ IsPrefix(ready_tasks, ready_tasks')
            /\ cur' \notin {0, cur} => (taken # <<>> /\ cur' = Head(taken))
            /\ taken' # taken => cur = 0
    ]_vars

\* at the end of a pass the next queue holds a task that woke itself in this
\* pass and a task spawned in it; neither has been polled since
C10_Witness ==
    /\ pc = "pass"
    /\ taken = <<>>
    /\ \E i \in 1..Len(ready_tasks) :
          tasks[ready_tasks[i]].await.kind = "yield"
    /\ \E i \in 1..Len(ready_tasks) :
          /\ tasks[ready_tasks[i]].ops = MaxOps
          /\ tasks[ready_tasks[i]].await.kind = "none"
          /\ tasks[ready_tasks[i]].future

(***************************************************************************)
(* Properties of an executor pass and of the context (SpecExec).           *)
(***************************************************************************)
\* C11: within one executor pass each task is polled at most once, whatever
\* the ready queue held when the pass began, a task queued several times
\* included.
C11_PolledOncePerPass ==
    \A i, j \in 1..Len(polled) : i # j => polled[i] # polled[j]

\* C12: the computation of a task is never polled after it has completed:
\* the task being polled has its future, a completed task stays as it is,
\* and a pass step over an entry of a completed task polls nothing and
\* changes nothing but the pass's own position in its queue.
C12_NoPollAfterComplete ==
    /\ [](cur # 0 => tasks[cur].future)
    /\ [][\A t \in 1..Len(tasks) : ~tasks[t].future => tasks'[t] = tasks[t]]_vars
    /\ [][(/\ pc = "pass" /\ cur = 0 /\ taken # <<>>
           /\ ~tasks[Head(taken)].future
           /\ taken' # taken)
          => /\ taken' = Tail(taken)
             /\ UNCHANGED <<pc, timerVars, ready_tasks, sleepVars, mutexVars, done,
                            context, tasks, cur, messages, recv_waker, root_log,
                            polled, pass_queue, context_locks,
                   netVars, netLogs, chanLogs, auxVars>>]_vars

\* a pass is over in which an entry was passed over because the slot of its
\* task was empty
C12_Witness ==
    /\ pc = "pass"
    /\ taken = <<>>
    /\ cur = 0
    /\ Len(polled) < Len(pass_queue)
    /\ \E t \in 1..Len(tasks) : ~tasks[t].future

RECURSIVE IsSubseq(_, _)
\* a is b with some of its elements left out
IsSubseq(a, b) ==
    IF a = <<>> THEN TRUE
    ELSE IF b = <<>> THEN FALSE
    ELSE IF Head(a) = Head(b) THEN IsSubseq(Tail(a), Tail(b))
    ELSE IsSubseq(a, Tail(b))

\* C13: within a pass the tasks are polled in the order in which they were
\* pushed to the ready queue: the tasks polled so far are, in order, entries
\* of the part of the queue the pass has gone through.
C13_FifoWithinPass ==
    /\ Len(taken) <= Len(pass_queue)
    /\ IsSubseq(polled, SubSeq(pass_queue, 1, Len(pass_queue) - Len(taken)))

\* two different tasks have been polled in one pass
C13_Witness ==
    /\ pc = "pass"
    /\ Len(polled) >= 2
    /\ polled[1] # polled[2]
    /\ pass_queue[1] # pass_queue[2]

\* C14: at most one context is installed at any time: the slot holds a
\* handle exactly when one ContextLock is alive, an attempt to install one
\* more (with_context, or a pass over a non-empty queue) panics, and when a
\* pass returns the slot is empty.
C14_OneContext ==
    /\ [](context_locks <= 1 /\ (context <=> context_locks = 1))
    /\ [][(pc = "api" /\ context /\ pc' # "api") => pc' = "panicked"]_vars
    /\ [][(pc \in {"pass", "poll"} /\ pc' = "api") => ~context']_vars

\* execute_tasks has panicked over a non-empty queue because the driving
\* code holds a ContextLock, after an earlier pass had returned
C14_Witness ==
    /\ pc = "panicked"
    /\ context
    /\ context_locks = 1
    /\ taken # <<>>
    /\ \E t \in 1..Len(tasks) : ~tasks[t].future

(***************************************************************************)
(* Properties of the mutex queue and of the condition variable (SpecMutex).*)
(***************************************************************************)
\* the identifiers of the lock attempts that still exist: the LockFutures
\* not yet resolved or dropped, and those inside pending CondWaits
LiveIds ==
    {f.id : f \in lock_futs}
    \cup {cond_waits[c].lock_future :
             c \in {k \in 1..Len(cond_waits) : ~cond_waits[k].resolved}}

\* the positions in the waiter list of the attempts that still exist
LiveWaiters == {i \in 1..Len(waiters) : waiters[i].id \in LiveIds}

\* C15: mutex grants are FIFO among the queued waiters: a release wakes
\* exactly one task, that of the first entry of the waiter list, and a
\* queued waiter obtains the guard only when no waiter is queued before it.
C15_FifoGrant ==
    /\ [][(is_locked /\ ~is_locked') =>
            ready_tasks' = IF waiters = <<>> THEN ready_tasks
                           ELSE Append(ready_tasks, waiters[1].waker)]_vars
    /\ [][\A id \in guards' \ guards :
            \A i \in 1..Len(waiters) : waiters[i].id = id => i = 1]_vars

\* C16: when a queued lock attempt has been dropped the remaining waiters
\* are not starved: a release with a remaining waiter queued wakes the task
\* of the oldest remaining waiter.
C16_CancelWakesNext ==
    [][(is_locked /\ ~is_locked' /\ LiveWaiters # {}) =>
         LET i == CHOOSE k \in LiveWaiters : \A j \in LiveWaiters : k <= j IN
         ready_tasks' = Append(ready_tasks, waiters[i].waker)]_vars

\* C17: a notify_one with several tasks suspended in wait sets the flag of
\* exactly one wait, the one of the earliest entry not yet woken, and wakes
\* its task and no other; a wait whose flag is not set does not resolve.
C17_NotifyOneWakesOne ==
    /\ [][NotifyOne =>
            LET nw == NotWoken(cond_waiters, cond_waits) IN
            IF nw = {}
            THEN cond_waits' = cond_waits /\ ready_tasks' = ready_tasks
            ELSE LET i == CHOOSE k \in nw : \A j \in nw : k <= j
                     c == cond_waiters[i].cw
                 IN /\ cond_waits'[c].woken
                    /\ \A k \in 1..Len(cond_waits) : k # c => cond_waits'[k] = cond_waits[k]
                    /\ ready_tasks' = Append(ready_tasks, cond_waiters[i].waker)
                    /\ \A k \in 1..Len(cond_waiters') : cond_waiters'[k].cw # c
                          \/ \E j \in (i + 1)..Len(cond_waiters) : cond_waiters[j].cw = c
           ]_vars
    /\ [][\A c \in 1..Len(cond_waits) :
            ~cond_waits'[c].woken => ~cond_waits'[c].resolved]_vars

\* one of three registered waits has been notified, the two others are
\* still registered and not woken
C17_Witness ==
    /\ Len(cond_waits) >= 2
    /\ cond_waits[1].woken
    /\ \E c \in 2..Len(cond_waits) :
          /\ ~cond_waits[c].woken
          /\ \E k \in 1..Len(cond_waiters) : cond_waiters[k].cw = c
    /\ \E k \in 1..Len(ready_tasks) : ready_tasks[k] = cond_waits[1].owner

\* C18: Condvar::wait(guard) releases the mutex; the wait is pending until a
\* notify has set its flag, and it resolves only by acquiring the mutex: at
\* the poll that resolves it no guard exists, and its guard is the only one
\* afterwards.
C18_WaitReacquires ==
    /\ [][Len(cond_waits') > Len(cond_waits) =>
            (~is_locked' /\ guards' = {})]_vars
    /\ [][\A c \in 1..Len(cond_waits) :
            (~cond_waits[c].resolved /\ cond_waits'[c].resolved) =>
               /\ cond_waits[c].woken
               /\ ~is_locked /\ guards = {}
               /\ is_locked' /\ Cardinality(guards') = 1]_vars

\* a notified wait that found the mutex taken at its first poll after the
\* notify has resolved later, and holds the guard
C18_Witness ==
    \E c \in 1..Len(cond_waits) :
       /\ cond_waits[c].resolved
       /\ cond_waits[c].lock_future # -1
       /\ guards = {cond_waits[c].lock_future}

(***************************************************************************)
(* Properties of the timed wait (SpecSync).                                *)
(***************************************************************************)
\* the wait has an entry on the waiter list
Registered(c) == \E k \in 1..Len(cond_waiters) : cond_waiters[k].cw = c

\* C19: wait_with_timeout(guard, d), d > 0, created at t0 resolves at the
\* first poll at which it has been notified or now() >= t0 + d, and not
\* before: a poll is Pending only if neither is the case, and while the wait
\* is pending and not notified before t0 + d the timer holds an entry that
\* wakes its task at t0 + d.
C19_TimedWait ==
    /\ [][\A c \in 1..Len(cond_waits) :
            (~cond_waits[c].resolved /\ cond_waits'[c].resolved) =>
               (cond_waits[c].woken \/ current_time >= cond_waits[c].t0 + cond_waits[c].d)]_vars
    /\ [][Len(cond_waiters') > Len(cond_waiters) =>
            LET c == cond_waiters'[Len(cond_waiters')].cw IN
            /\ ~cond_waits[c].woken
            /\ current_time < cond_waits[c].t0 + cond_waits[c].d]_vars
    /\ [](\A c \in 1..Len(cond_waits) :
            (/\ Registered(c) /\ ~cond_waits[c].resolved /\ ~cond_waits[c].woken
             /\ current_time < cond_waits[c].t0 + cond_waits[c].d)
            => \E k \in 1..Len(time_events) :
                  /\ time_events[k].wake_time = cond_waits[c].t0 + cond_waits[c].d
                  /\ time_events[k].waker = cond_waits[c].owner)
    /\ [](\A c \in 1..Len(cond_waits) : cond_waits[c].d > 0)

\* a wait created after time had advanced was never notified and has
\* resolved at t0 + d, after the timer had woken its task
C19_Witness ==
    \E c \in 1..Len(cond_waits) :
       /\ cond_waits[c].resolved
       /\ cond_waits[c].timed_out
       /\ ~cond_waits[c].woken
       /\ cond_waits[c].t0 > START_TIME
       /\ current_time = cond_waits[c].t0 + cond_waits[c].d
       /\ \E k \in 1..Len(ready_tasks) : ready_tasks[k] = cond_waits[c].owner

\* C20: a waiter that has returned because its timeout expired leaves no
\* effective registration: a notify_one issued while another task is still
\* waiting (registered, not notified, not resolved) wakes a task that is
\* still waiting.
C20_NoStaleRegistration ==
    [][(/\ NotifyOne
        /\ \E c \in 1..Len(cond_waits) :
              Registered(c) /\ ~cond_waits[c].resolved /\ ~cond_waits[c].woken)
       => \E c \in 1..Len(cond_waits) :
              /\ ~cond_waits[c].resolved
              /\ ~cond_waits[c].woken
              /\ cond_waits'[c].woken]_vars

(***************************************************************************)
(* The mpsc channel on its own (sync/mpsc.rs): any number of senders call  *)
(* send, and GetFut tokens obtained from recv() are polled by tasks, in    *)
(* any order.  A message is the ordinal of its send and the sender.        *)
(***************************************************************************)
MaxSends == 3       \* messages sent on the channel of SpecChan
MaxUnits == 20      \* largest n given to a Duration / Time constructor

\* inner.messages.push(msg), put at the front instead
ChanPushFront(msgs, m) == <<m>> \o msgs

\* inner.messages.push(msg)
ChanPush(msgs, m) == Append(msgs, m)

\* Sender::send
ChanSend(s) ==
    /\ pc = "api"
    /\ Len(chan_sent) < MaxSends
    /\ LET m == [id |-> Len(chan_sent) + 1, from |-> s] IN
       /\ messages' = ChanPush(messages, m)
       /\ chan_sent' = Append(chan_sent, m)
    /\ ready_tasks' = SendWakes(ready_tasks, recv_waker)
    /\ recv_waker' = 0
    /\ UNCHANGED <<pc, current_time, time_events, sleepVars, mutexVars, done, taken,
                   context, tasks, cur, root_log, passVars, context_locks,
                   netVars, netLogs, chan_recv, chan_last, auxVars>>

\* GetFut::poll that resolves whatever the buffer holds
GetFutPollAlways(msgs, waker, w) ==
    [ready |-> TRUE, batch |-> msgs, messages |-> <<>>, waker |-> waker]

\* GetFut::poll that returns Pending without storing the waker
GetFutPollNoWaker(msgs, waker, w) ==
    IF msgs = <<>>
    THEN [ready |-> FALSE, batch |-> <<>>, messages |-> msgs, waker |-> waker]
    ELSE [ready |-> TRUE, batch |-> msgs, messages |-> <<>>, waker |-> waker]

\* GetFut::poll by task w: Pending with the waker stored if the buffer is
\* empty, Ready with the whole buffer (swapped for an empty Vec) otherwise
GetFutPoll(msgs, waker, w) ==
    IF msgs = <<>>
    THEN [ready |-> FALSE, batch |-> <<>>, messages |-> msgs, waker |-> w]
    ELSE [ready |-> TRUE, batch |-> msgs, messages |-> <<>>, waker |-> waker]

\* a task polls a GetFut of the receiver
ChanRecvPoll(w) ==
    /\ pc = "api"
    /\ LET r == GetFutPoll(messages, recv_waker, w) IN
       /\ messages' = r.messages
       /\ recv_waker' = r.waker
       /\ chan_recv' = chan_recv \o r.batch
       /\ chan_last' = [by |-> w, buffered |-> messages, ready |-> r.ready,
                        batch |-> r.batch, left |-> r.messages, waker |-> r.waker]
    /\ UNCHANGED <<pc, timerVars, ready_tasks, sleepVars, mutexVars, done, taken,
                   context, tasks, cur, root_log, passVars, context_locks,
                   netVars, netLogs, chan_sent, auxVars>>

(***************************************************************************)
(* SpecChan: one mpsc channel, its API called in any order.                *)
(***************************************************************************)
InitChan ==
    /\ pc = "api"
    /\ sleeps = {}
    /\ InitTimerVars /\ InitMutexVars /\ InitRtVars

NextChan ==
    \/ \E s \in Wakers : ChanSend(s)
    \/ \E w \in Wakers : ChanRecvPoll(w)
    \/ TakeReady

SpecChan == InitChan /\ [][NextChan]_vars

(***************************************************************************)
(* Properties of the mpsc channel (SpecChan).                              *)
(***************************************************************************)
\* C21: whatever the interleaving of sends and recv polls, the batches recv
\* has returned, concatenated in order, are a prefix of the messages in
\* send order, and what is left of that sequence is exactly the buffer: no
\* message is lost, duplicated or reordered.
C21_BatchesArePrefix ==
    /\ IsPrefix(chan_recv, chan_sent)
    /\ chan_recv \o messages = chan_sent

\* messages sent by different senders have come out in two batches
C21_Witness ==
    /\ Len(chan_recv) = MaxSends
    /\ chan_last.by # 0
    /\ chan_last.ready
    /\ Len(chan_last.batch) < Len(chan_recv)
    /\ \E i, j \in 1..Len(chan_recv) : chan_recv[i].from # chan_recv[j].from

\* C22: a recv token never resolves with an empty batch: it resolves exactly
\* at a poll that finds at least one message buffered, returns all the
\* messages buffered at that poll and leaves the buffer empty; polled with
\* an empty buffer it stores the waker of the polling task and is Pending.
C22_NeverEmptyBatch ==
    chan_last.by # 0 =>
        /\ chan_last.ready <=> chan_last.buffered # <<>>
        /\ chan_last.ready =>
               /\ chan_last.batch # <<>>
               /\ chan_last.batch = chan_last.buffered
               /\ chan_last.left = <<>>
        /\ ~chan_last.ready =>
               /\ chan_last.waker = chan_last.by
               /\ chan_last.left = <<>>
               /\ chan_last.batch = <<>>

\* a poll has returned a batch of two messages, and a later poll by another
\* task has found the buffer empty
C22_Witness ==
    /\ chan_last.by # 0
    /\ ~chan_last.ready
    /\ Len(chan_recv) >= 2
    /\ chan_recv[1].from # chan_last.by
    /\ recv_waker = chan_last.by

(***************************************************************************)
(* The network (network/node.rs, network/link.rs, network/mod.rs).         *)
(* A node is known by its ObjectId; ObjectId::random() draws 64 random     *)
(* bits, and the model gives the k-th node created the identifier k (two   *)
(* nodes never share one).  A link is known by its position in links.      *)
(* A message is [id, content, origin]: id is the ordinal of the Link::send *)
(* that carries it, content the ordinal of the send of which it is a       *)
(* clone, origin the node that first sent that content.                    *)
(***************************************************************************)
NumNodes    == 3    \* nodes that are created
MaxLinks    == 2    \* links that SpecPeers creates
MaxNetSends == 2    \* calls of send_to, broadcast and the relay by the driving code
MaxLat      == 1    \* link latencies are drawn from 0..MaxLat

MsgSize == 1        \* NetworkMessage::get_size() of the messages, in bytes

NodeIds == 1..NumNodes
Latencies == 0..MaxLat
\* Bandwidth::from_megabits_per_second
FromMegabitsPerSecond(mbps) == mbps * 1024 * 1024
\* the bandwidths given to Node::new: 1 Mb/s and 8 Mb/s
Bandwidths == {FromMegabitsPerSecond(1), FromMegabitsPerSecond(8)}

\* get_size_delay, in microseconds: integer division of size * 8 * 10^6
GetSizeDelay(size, bw) == (size * 8 * 1000 * 1000) \div bw

NodesCreated == 1..Len(bandwidth)
NoPeers == [p \in NodeIds |-> 0]
\* Node::get_peers: the keys of network_links
GetPeers(n) == {p \in NodeIds : network_links[n][p] # 0}

Role(t) == IF t \in DOMAIN roles THEN roles[t] ELSE [kind |-> "user"]
AddRole(rs, t, r) == [x \in (DOMAIN rs) \cup {t} |-> IF x = t THEN r ELSE rs[x]]

\* the state that the calls of the network API change, as one record
NetState ==
    [links |-> links, tasks |-> tasks, roles |-> roles,
     ready_tasks |-> ready_tasks, next_msg |-> next_msg,
     link_sends |-> link_sends, sent_log |-> sent_log, panic |-> FALSE]

\* crate::spawn of a network task: it panics outside an asim context
SpawnRole(s, r) ==
    IF ~context
    THEN [s EXCEPT !.panic = TRUE]
    ELSE [s EXCEPT !.tasks = Append(@, [NewTask EXCEPT !.ops = 0]),
                   !.roles = AddRole(@, Len(s.tasks) + 1, r),
                   !.ready_tasks = Spawn(@, Len(s.tasks) + 1)]

\* LinkQueue::send that does not touch the lifetime counter
LinkQueueSendNoTotal(s, l, q, m) ==
    LET was_empty == s.links[l].queues[q].current_message_count = 0
        prev == s.links[l].active_queues
        s1 == [s EXCEPT !.links[l].queues[q].current_message_count = @ + 1,
                        !.links[l].active_queues =
                            IF was_empty THEN @ + 1 ELSE @,
                        !.links[l].callback =
                            IF was_empty /\ prev = 0
                            THEN Append(@, "link_became_active") ELSE @]
    IN SpawnRole(s1, [kind |-> "transit", link |-> l, q |-> q, msg |-> m])

\* LinkQueue::send that calls link_became_active for every queue that
\* becomes non-empty
LinkQueueSendPerQueue(s, l, q, m) ==
    LET was_empty == s.links[l].queues[q].current_message_count = 0
        s1 == [s EXCEPT !.links[l].queues[q].total_message_count = @ + 1,
                        !.links[l].queues[q].current_message_count = @ + 1,
                        !.links[l].active_queues =
                            IF was_empty THEN @ + 1 ELSE @,
                        !.links[l].callback =
                            IF was_empty
                            THEN Append(@, "link_became_active") ELSE @]
    IN SpawnRole(s1, [kind |-> "transit", link |-> l, q |-> q, msg |-> m])

\* LinkQueue::send: count the message, mark the queue (and the link) active
\* if it was empty, calling link_became_active when the link had no active
\* queue, and spawn the transit task
LinkQueueSend(s, l, q, m) ==
    LET was_empty == s.links[l].queues[q].current_message_count = 0
        prev == s.links[l].active_queues
        s1 == [s EXCEPT !.links[l].queues[q].total_message_count = @ + 1,
                        !.links[l].queues[q].current_message_count = @ + 1,
                        !.links[l].active_queues =
                            IF was_empty THEN @ + 1 ELSE @,
                        !.links[l].callback =
                            IF was_empty /\ prev = 0
                            THEN Append(@, "link_became_active") ELSE @]
    IN SpawnRole(s1, [kind |-> "transit", link |-> l, q |-> q, msg |-> m])

\* Link::send: the queue whose source is `source`, or a panic
LinkSend(s, l, source, content, origin) ==
    LET id == s.next_msg + 1
        m == [id |-> id, content |-> content, origin |-> origin]
        q == IF s.links[l].queues[1].source = source THEN 1
             ELSE IF s.links[l].queues[2].source = source THEN 2 ELSE 0
        s1 == [s EXCEPT !.next_msg = id,
                        !.link_sends[l] = @ + 1,
                        !.sent_log = Append(@, [msg |-> m, link |-> l, q |-> q,
                                                source |-> source,
                                                time |-> current_time])]
    IN IF q = 0 THEN [s1 EXCEPT !.panic = TRUE] ELSE LinkQueueSend(s1, l, q, m)

\* notify_delivery_fn that never gives up the active mark of the queue
NotifyDeliveryKeepActive(lks, l, q) ==
    LET prev == lks[l].queues[q].current_message_count IN
    IF prev = 0
    THEN [links |-> lks, panic |-> TRUE]
    ELSE [links |-> [lks EXCEPT ![l].queues[q].current_message_count = @ - 1],
          panic |-> FALSE]

\* the closure notify_delivery_fn: release the in-flight counter of the
\* queue; the assertion prev > 0 panics.  The last message of the last
\* active queue calls link_became_inactive.
NotifyDelivery(lks, l, q) ==
    LET prev == lks[l].queues[q].current_message_count IN
    IF prev = 0
    THEN [links |-> lks, panic |-> TRUE]
    ELSE [links |-> [lks EXCEPT ![l].queues[q].current_message_count = @ - 1,
                                ![l].active_queues =
                                    IF prev = 1 THEN @ - 1 ELSE @,
                                ![l].callback =
                                    IF prev = 1 /\ lks[l].active_queues = 1
                                    THEN Append(@, "link_became_inactive")
                                    ELSE @],
          panic |-> FALSE]

\* Link::is_active
IsActive(l) == links[l].active_queues > 0

\* Link::num_total_messages
NumTotalMessages(l) ==
    links[l].queues[1].total_message_count + links[l].queues[2].total_message_count

\* Node::send_to that takes the peer for the source of the message
SendToAsPeer(s, n, peer, content, origin) ==
    IF network_links[n][peer] # 0
    THEN [net |-> LinkSend(s, network_links[n][peer], peer, content, origin),
          ret |-> "true"]
    ELSE [net |-> s, ret |-> "false"]

\* Node::send_to: get_link_to(peer), then Link::send with the node's own
\* identifier as the source
SendTo(s, n, peer, content, origin) ==
    IF network_links[n][peer] # 0
    THEN [net |-> LinkSend(s, network_links[n][peer], n, content, origin),
          ret |-> "true"]
    ELSE [net |-> s, ret |-> "false"]

\* Node::broadcast that does not look at `ignore`
RECURSIVE BroadcastNoIgnore(_, _, _, _, _, _)
BroadcastNoIgnore(s, n, order, ignore, content, origin) ==
    IF order = <<>> \/ s.panic THEN s
    ELSE BroadcastNoIgnore(
             LinkSend(s, network_links[n][Head(order)], n, content, origin),
             n, Tail(order), ignore, content, origin)

\* Node::broadcast: `order` is the order in which the HashMap hands out the
\* entries of the peer table; the entry of `ignore` (0: None) is skipped
RECURSIVE Broadcast(_, _, _, _, _, _)
Broadcast(s, n, order, ignore, content, origin) ==
    IF order = <<>> \/ s.panic THEN s
    ELSE Broadcast(
             IF Head(order) = ignore THEN s
             ELSE LinkSend(s, network_links[n][Head(order)], n, content, origin),
             n, Tail(order), ignore, content, origin)

\* the orders in which a set can be iterated
Orders(S) ==
    {o \in [1..Cardinality(S) -> S] : \A i, j \in 1..Cardinality(S) :
                                          i # j => o[i] # o[j]}

\* the assignments that install a NetState
SetNetState(s) ==
    /\ links' = s.links
    /\ tasks' = s.tasks
    /\ roles' = s.roles
    /\ ready_tasks' = s.ready_tasks
    /\ next_msg' = s.next_msg
    /\ link_sends' = s.link_sends
    /\ sent_log' = s.sent_log

\* Node::new: the node, its inbox channel and its inbox_loop task
NodeNew(s, bw) ==
    SpawnRole(s, [kind |-> "inbox", node |-> Len(bandwidth) + 1])

\* Link::new: the two queues; get_nodes panics on equal identifiers
LinkNew(a, b, latency) ==
    [queues |-> <<[latency |-> latency, source |-> a, dest |-> b,
                   current_message_count |-> 0, total_message_count |-> 0],
                  [latency |-> latency, source |-> b, dest |-> a,
                   current_message_count |-> 0, total_message_count |-> 0]>>,
     active_queues |-> 0,
     callback |-> <<>>]

\* Node::connect: the link goes into both peer tables
Connect(nl, a, b, l) == [nl EXCEPT ![a][b] = l, ![b][a] = l]

\* Node::disconnect_all that only clears the local table
DisconnectAllLocal(nl, a) ==
    [tables |-> [nl EXCEPT ![a] = NoPeers], panic |-> FALSE]

\* Node::disconnect_all: remove the reverse entry of every peer (expect
\* panics if it is absent), then clear the local table
DisconnectAll(nl, a) ==
    LET peers == {p \in NodeIds : nl[a][p] # 0} IN
    IF \E p \in peers : nl[p][a] = 0
    THEN [tables |-> nl, panic |-> TRUE]
    ELSE [tables |-> [n \in DOMAIN nl |->
                        IF n = a THEN NoPeers
                        ELSE IF n \in peers THEN [nl[n] EXCEPT ![a] = 0]
                        ELSE nl[n]],
          panic |-> FALSE]

(***************************************************************************)
(* The network API called by the driving code, in any order, between the   *)
(* passes: Node::new, Node::connect, disconnect_all, send_to, broadcast.   *)
(* Node::new and Link::send spawn a task, which panics unless the driving  *)
(* code holds a ContextLock.                                                *)
(***************************************************************************)
ApiUnchanged ==
    UNCHANGED <<timerVars, sleepVars, mutexVars, done, taken, context, cur,
                messages, recv_waker, root_log, passVars, context_locks, chanLogs, auxVars>>

\* Node::new(bandwidth, ..)
ApiNodeNew(bw) ==
    /\ pc = "api"
    /\ Len(bandwidth) < NumNodes
    /\ LET s == NodeNew(NetState, bw) IN
       IF s.panic
       THEN /\ pc' = "panicked"
            /\ UNCHANGED <<ready_tasks, tasks, netVars, netLogs>>
       ELSE /\ SetNetState(s)
            /\ bandwidth' = Append(bandwidth, bw)
            /\ network_links' = Append(network_links, NoPeers)
            /\ inbox' = Append(inbox, <<>>)
            /\ inbox_waker' = Append(inbox_waker, 0)
            /\ batch' = Append(batch, <<>>)
            /\ enq_log' = Append(enq_log, <<>>)
            /\ UNCHANGED <<pc, handle_log, ack_log, ret>>
    /\ ApiUnchanged

\* Node::connect(a, b, latency, ..)
ApiConnect(a, b, latency) ==
    /\ pc = "api"
    /\ Len(links) < MaxLinks
    /\ IF a = b
       THEN /\ pc' = "panicked"
            /\ UNCHANGED <<links, link_sends, network_links>>
       ELSE /\ links' = Append(links, LinkNew(a, b, latency))
            /\ link_sends' = Append(link_sends, 0)
            /\ network_links' = Connect(network_links, a, b, Len(links) + 1)
            /\ UNCHANGED pc
    /\ UNCHANGED <<ready_tasks, tasks, bandwidth, inbox, inbox_waker, batch, roles,
                   next_msg, sent_log, enq_log, handle_log, ack_log, ret>>
    /\ ApiUnchanged

\* a.disconnect_all() that also resets the counters of the links it removes
ApiDisconnectAllResets(a) ==
    /\ pc = "api"
    /\ LET r == DisconnectAll(network_links, a) IN
       /\ network_links' = r.tables
       /\ pc' = IF r.panic THEN "panicked" ELSE pc
    /\ links' = [l \in DOMAIN links |->
                    IF \E p \in NodeIds : network_links[a][p] = l
                    THEN [links[l] EXCEPT !.active_queues = 0,
                                          !.queues[1].current_message_count = 0,
                                          !.queues[2].current_message_count = 0]
                    ELSE links[l]]
    /\ UNCHANGED <<ready_tasks, tasks, bandwidth, inbox, inbox_waker, batch,
                   roles, next_msg, link_sends, sent_log, enq_log, handle_log,
                   ack_log, ret>>
    /\ ApiUnchanged

\* a.disconnect_all()
ApiDisconnectAll(a) ==
    /\ pc = "api"
    /\ LET r == DisconnectAll(network_links, a) IN
       /\ network_links' = r.tables
       /\ pc' = IF r.panic THEN "panicked" ELSE pc
    /\ UNCHANGED <<ready_tasks, tasks, bandwidth, links, inbox, inbox_waker, batch,
                   roles, next_msg, link_sends, sent_log, enq_log, handle_log,
                   ack_log, ret>>
    /\ ApiUnchanged

\* a.send_to(&b, msg)
ApiSendTo(a, b) ==
    /\ pc = "api"
    /\ next_msg < MaxNetSends
    /\ LET r == SendTo(NetState, a, b, next_msg + 1, a) IN
       /\ SetNetState(r.net)
       /\ pc' = IF r.net.panic THEN "panicked" ELSE pc
       /\ ret' = r.ret
    /\ UNCHANGED <<network_links, bandwidth, inbox, inbox_waker, batch, enq_log,
                   handle_log, ack_log>>
    /\ ApiUnchanged

\* a.broadcast(msg, ignore); ignore = 0 stands for None
ApiBroadcast(a, ignore) ==
    /\ pc = "api"
    /\ next_msg < MaxNetSends
    /\ \E order \in Orders(GetPeers(a)) :
         LET s == Broadcast(NetState, a, order, ignore, next_msg + 1, a) IN
         /\ SetNetState(s)
         /\ pc' = IF s.panic THEN "panicked" ELSE pc
    /\ UNCHANGED <<network_links, bandwidth, inbox, inbox_waker, batch, enq_log,
                   handle_log, ack_log, ret>>
    /\ ApiUnchanged

(***************************************************************************)
(* SpecPeers: the driving code takes the ContextLock, creates the nodes    *)
(* (all with the same bandwidth) and then calls connect and disconnect_all *)
(* in any order.  The latency of a link plays no part before a pass runs:  *)
(* every link gets MaxLat.                                                 *)
(***************************************************************************)
InitPeers ==
    /\ pc = "api"
    /\ sleeps = {}
    /\ InitTimerVars /\ InitMutexVars /\ InitRtVars

AllNodesCreated == Len(bandwidth) = NumNodes

NextPeers ==
    \/ WithContext
    \/ ApiNodeNew(FromMegabitsPerSecond(1))
    \/ \E a, b \in NodesCreated : AllNodesCreated /\ ApiConnect(a, b, MaxLat)
    \/ \E a \in NodesCreated : AllNodesCreated /\ ApiDisconnectAll(a)

SpecPeers == InitPeers /\ [][NextPeers]_vars

(***************************************************************************)
(* The tasks of the network, polled by the executor.  A poll of a network  *)
(* task is followed step by step: the task stays the current one until it  *)
(* returns Pending or completes.  The await record of a network task tells *)
(* where its future is suspended: "none" (not started, or at the top of    *)
(* inbox_loop), "recv", "item" (about to take the next tuple of the        *)
(* batch) and "sleep".                                                     *)
(***************************************************************************)
HubNode == 1

PollUnchanged ==
    UNCHANGED <<current_time, sleepVars, mutexVars, done, taken, context, messages,
                recv_waker, root_log, passVars, context_locks, network_links,
                bandwidth, chanLogs, auxVars, ret>>

\* the task returns Pending
Suspend(aw) ==
    /\ tasks' = [tasks EXCEPT ![cur].await = aw]
    /\ cur' = 0
    /\ pc' = "pass"

\* the first poll of a SleepFut is Pending: its entry goes into the heap
SleepPending(wake_time) ==
    /\ time_events' = HeapPush(time_events, [wake_time |-> wake_time, waker |-> cur])
    /\ Suspend([kind |-> "sleep", wake_time |-> wake_time])

\* Node::deliver_message that pushes the tuple without waking the receiver
DeliverMessageNoWake(n, item) ==
    /\ inbox' = [inbox EXCEPT ![n] = ChanPush(@, item)]
    /\ UNCHANGED <<ready_tasks, inbox_waker>>
    /\ enq_log' = [enq_log EXCEPT ![n] = Append(@, item.msg.id)]

\* Node::deliver_message: inbox_sender.send((source, message, ack))
DeliverMessage(n, item) ==
    /\ inbox' = [inbox EXCEPT ![n] = ChanPush(@, item)]
    /\ ready_tasks' = SendWakes(ready_tasks, inbox_waker[n])
    /\ inbox_waker' = [inbox_waker EXCEPT ![n] = 0]
    /\ enq_log' = [enq_log EXCEPT ![n] = Append(@, item.msg.id)]

\* the transit task of LinkQueue::send: sleep for the latency if it is not
\* zero, then hand the message and its ack closure to the destination
TransitPoll ==
    /\ pc = "poll"
    /\ Role(cur).kind = "transit"
    /\ LET r == Role(cur)
           qu == links[r.link].queues[r.q]
           resumed == tasks[cur].await.kind = "sleep"
           wake_time == IF resumed THEN tasks[cur].await.wake_time
                        ELSE WakeTime(current_time, qu.latency)
       IN
       IF (resumed \/ qu.latency # 0) /\ ~SleepReady(current_time, wake_time)
       THEN /\ SleepPending(wake_time)
            /\ UNCHANGED <<ready_tasks, inbox, inbox_waker, enq_log>>
       ELSE /\ DeliverMessage(qu.dest, [source |-> qu.source, msg |-> r.msg,
                                        link |-> r.link, q |-> r.q])
            /\ tasks' = [tasks EXCEPT ![cur].future = FALSE, ![cur].await = NoAwait]
            /\ cur' = 0
            /\ pc' = "pass"
            /\ UNCHANGED time_events
    /\ UNCHANGED <<links, batch, roles, next_msg, link_sends, sent_log, handle_log,
                   ack_log>>
    /\ PollUnchanged

\* inbox_loop at inbox_receiver.recv().await
InboxRecvPoll ==
    /\ pc = "poll"
    /\ Role(cur).kind = "inbox"
    /\ tasks[cur].await.kind \in {"none", "recv"}
    /\ LET n == Role(cur).node
           r == GetFutPoll(inbox[n], inbox_waker[n], cur)
       IN
       /\ inbox' = [inbox EXCEPT ![n] = r.messages]
       /\ inbox_waker' = [inbox_waker EXCEPT ![n] = r.waker]
       /\ batch' = [batch EXCEPT ![n] = r.batch]
       /\ IF r.ready
          THEN /\ tasks' = [tasks EXCEPT ![cur].await = [kind |-> "item", wake_time |-> 0]]
               /\ UNCHANGED <<cur, pc>>
          ELSE Suspend([kind |-> "recv", wake_time |-> 0])
    /\ UNCHANGED <<time_events, ready_tasks, links, roles, next_msg, link_sends,
                   sent_log, enq_log, handle_log, ack_log>>
    /\ PollUnchanged

\* inbox_loop with a tuple of the batch: sleep for the size delay if it is
\* not zero; then invoke the ack closure and spawn the task that runs
\* handle_message
InboxItemPoll ==
    /\ pc = "poll"
    /\ Role(cur).kind = "inbox"
    /\ tasks[cur].await.kind \in {"item", "sleep"}
    /\ LET n == Role(cur).node
           item == Head(batch[n])
           resumed == tasks[cur].await.kind = "sleep"
           size_delay == GetSizeDelay(MsgSize, bandwidth[n])
           wake_time == IF resumed THEN tasks[cur].await.wake_time
                        ELSE WakeTime(current_time, size_delay)
       IN
       IF (resumed \/ size_delay # 0) /\ ~SleepReady(current_time, wake_time)
       THEN /\ SleepPending(wake_time)
            /\ UNCHANGED <<ready_tasks, links, batch, roles, ack_log>>
       ELSE LET a == NotifyDelivery(links, item.link, item.q)
                s == SpawnRole(NetState, [kind |-> "handler", node |-> n,
                                          source |-> item.source, msg |-> item.msg])
            IN
            /\ links' = a.links
            /\ ack_log' = Append(ack_log, item.msg.id)
            /\ IF a.panic
               THEN /\ pc' = "panicked"
                    /\ UNCHANGED <<tasks, roles, ready_tasks, batch, cur>>
               ELSE /\ batch' = [batch EXCEPT ![n] = Tail(@)]
                    /\ tasks' = [s.tasks EXCEPT ![cur].await =
                                    IF Tail(batch[n]) = <<>> THEN NoAwait
                                    ELSE [kind |-> "item", wake_time |-> 0]]
                    /\ roles' = s.roles
                    /\ ready_tasks' = s.ready_tasks
                    /\ UNCHANGED <<cur, pc>>
            /\ UNCHANGED time_events
    /\ UNCHANGED <<inbox, inbox_waker, next_msg, link_sends, sent_log, enq_log,
                   handle_log>>
    /\ PollUnchanged

\* the relay of the hub: node.send_to(&peer_id, message.clone()) for every
\* peer but the source, in the order get_peers() returns them
RECURSIVE Relay(_, _, _, _, _)
Relay(s, n, order, source, m) ==
    IF order = <<>> \/ s.panic THEN s
    ELSE Relay(IF Head(order) = source THEN s
               ELSE SendTo(s, n, Head(order), m.content, m.origin).net,
               n, Tail(order), source, m)

\* the task that runs handle_message: the callback logs the message; the
\* hub relays a message that did not come from the hub itself
HandlerPoll ==
    /\ pc = "poll"
    /\ Role(cur).kind = "handler"
    /\ LET r == Role(cur) IN
       /\ handle_log' = Append(handle_log, [node |-> r.node, source |-> r.source,
                                            msg |-> r.msg, time |-> current_time])
       /\ \E order \in Orders(GetPeers(r.node)) :
            LET s0 == [NetState EXCEPT !.tasks[cur].future = FALSE]
                s == IF r.node = HubNode /\ r.msg.origin # HubNode
                     THEN Relay(s0, r.node, order, r.source, r.msg)
                     ELSE s0
            IN /\ SetNetState(s)
               /\ pc' = IF s.panic THEN "panicked" ELSE "pass"
    /\ cur' = 0
    /\ UNCHANGED <<time_events, inbox, inbox_waker, batch, enq_log, ack_log>>
    /\ PollUnchanged

(***************************************************************************)
(* The root future of the network runs: it creates the nodes and connects  *)
(* the hub to every other node (a star, as examples/chat_network.rs does), *)
(* then sends and sleeps.                                                  *)
(***************************************************************************)
MaxNetOps == 5      \* operations of the root of SpecNet after the set-up

\* the durations the root sleeps for: a short one and one beyond a latency
NetDurations == {1, MaxLat + 1}

UserRunning ==
    /\ pc = "poll"
    /\ Role(cur).kind = "user"
    /\ tasks[cur].await.kind = "none"

UserUnchanged ==
    UNCHANGED <<current_time, sleepVars, mutexVars, done, taken, context, messages,
                recv_waker, passVars, context_locks, chanLogs, auxVars>>

\* Node::new for every node, then Node::connect(hub, n, latency, ..) for
\* every other node n
UserSetup(latency, bw) ==
    /\ UserRunning
    /\ root_log = <<>>
    /\ root_log' = <<[op |-> "setup", d |-> latency]>>
    /\ bandwidth' = [n \in NodeIds |-> bw]
    /\ tasks' = tasks \o [n \in NodeIds |-> [NewTask EXCEPT !.ops = 0]]
    /\ roles' = [t \in (Len(tasks) + 1)..(Len(tasks) + NumNodes) |->
                    [kind |-> "inbox", node |-> t - Len(tasks)]]
    /\ ready_tasks' = ready_tasks \o [n \in NodeIds |-> Len(tasks) + n]
    /\ inbox' = [n \in NodeIds |-> <<>>]
    /\ inbox_waker' = [n \in NodeIds |-> 0]
    /\ batch' = [n \in NodeIds |-> <<>>]
    /\ enq_log' = [n \in NodeIds |-> <<>>]
    /\ links' = [l \in 1..(NumNodes - 1) |-> LinkNew(HubNode, l + 1, latency)]
    /\ link_sends' = [l \in 1..(NumNodes - 1) |-> 0]
    /\ network_links' =
          [n \in NodeIds |-> [p \in NodeIds |->
              IF n = HubNode /\ p # HubNode THEN p - 1
              ELSE IF n # HubNode /\ p = HubNode THEN n - 1 ELSE 0]]
    /\ UNCHANGED <<pc, cur, time_events, next_msg, sent_log, handle_log, ack_log,
                   ret>>
    /\ UserUnchanged

UserOp == UserRunning /\ root_log # <<>> /\ Len(root_log) <= MaxNetOps

\* a.send_to(&b, msg) called by the root
UserSendTo(a, b) ==
    /\ UserOp
    /\ LET r == SendTo(NetState, a, b, next_msg + 1, a) IN
       /\ SetNetState(r.net)
       /\ pc' = IF r.net.panic THEN "panicked" ELSE pc
       /\ ret' = r.ret
    /\ root_log' = Append(root_log, [op |-> "send_to", d |-> 0])
    /\ UNCHANGED <<cur, time_events, network_links, bandwidth, inbox, inbox_waker,
                   batch, enq_log, handle_log, ack_log>>
    /\ UserUnchanged

\* sleep(d).await in the root: sleep_for, then the first poll of the SleepFut
UserSleep(d) ==
    /\ UserOp
    /\ root_log' = Append(root_log, [op |-> "sleep", d |-> d])
    /\ IF SleepReady(current_time, WakeTime(current_time, d))
       THEN UNCHANGED <<time_events, tasks, cur, pc>>
       ELSE SleepPending(WakeTime(current_time, d))
    /\ UNCHANGED <<ready_tasks, netVars, netLogs>>
    /\ UserUnchanged

\* the root is polled again while it sleeps
UserResume ==
    /\ pc = "poll"
    /\ Role(cur).kind = "user"
    /\ tasks[cur].await.kind = "sleep"
    /\ IF SleepReady(current_time, tasks[cur].await.wake_time)
       THEN /\ tasks' = [tasks EXCEPT ![cur].await = NoAwait]
            /\ UNCHANGED <<time_events, cur, pc>>
       ELSE SleepPending(tasks[cur].await.wake_time)
    /\ UNCHANGED <<ready_tasks, root_log, netVars, netLogs>>
    /\ UserUnchanged

\* the root future returns
UserFinish ==
    /\ UserRunning
    /\ root_log # <<>>
    /\ tasks' = [tasks EXCEPT ![cur].future = FALSE]
    /\ done' = TRUE
    /\ cur' = 0
    /\ pc' = "pass"
    /\ UNCHANGED <<timerVars, ready_tasks, sleepVars, mutexVars, taken, context,
                   messages, recv_waker, root_log, passVars, context_locks,
                   netVars, netLogs, chanLogs, auxVars>>

(***************************************************************************)
(* SpecNet: Runtime::new() followed by block_on(root), the root using the  *)
(* network.  The root sends from a spoke to the hub and back.              *)
(***************************************************************************)
InitNet ==
    /\ pc = "init"
    /\ sleeps = {}
    /\ InitTimerVars /\ InitMutexVars /\ InitRtVars

NextNet ==
    \/ BlockOn
    \/ LoopCheck
    \/ ExecuteTasksBegin
    \/ PollNext
    \/ \E latency \in Latencies, bw \in Bandwidths : UserSetup(latency, bw)
    \/ \E a, b \in {HubNode, HubNode + 1} : a # b /\ UserSendTo(a, b)
    \/ \E d \in NetDurations : UserSleep(d)
    \/ UserResume
    \/ UserFinish
    \/ TransitPoll
    \/ InboxRecvPoll
    \/ InboxItemPoll
    \/ HandlerPoll
    \/ ExecuteTasksEnd
    \/ TimerAdvance

SpecNet == InitNet /\ [][NextNet]_vars

(***************************************************************************)
(* SpecSend: the driving code holds the ContextLock and has built the star *)
(* (Node::new for every node, Node::connect(hub, n, ..) for every other    *)
(* node n); it then calls send_to, broadcast and disconnect_all in any     *)
(* order, and the hub's handle_message is called for messages of its       *)
(* peers.  No pass runs.                                                   *)
(***************************************************************************)
\* ChatNodeCallback::handle_message of the hub, called for a message that
\* `source` has sent: the relay
ApiHandleMessage(source) ==
    /\ pc = "api"
    /\ next_msg < MaxNetSends
    /\ \E order \in Orders(GetPeers(HubNode)) :
         LET m == [id |-> 0, content |-> next_msg + 1, origin |-> source]
             s == Relay(NetState, HubNode, order, source, m)
         IN
         /\ SetNetState(s)
         /\ pc' = IF s.panic THEN "panicked" ELSE pc
    /\ UNCHANGED <<network_links, bandwidth, inbox, inbox_waker, batch, enq_log,
                   handle_log, ack_log, ret>>
    /\ ApiUnchanged

\* the state in which Node::new has been called for the nodes 1..n and
\* Node::connect(hub, k, latency, ..) for every other node k of them,
\* inside a with_context block
InitStar(n, latency, bw) ==
    /\ pc = "api"
    /\ sleeps = {}
    /\ current_time = START_TIME
    /\ time_events = <<>>
    /\ InitMutexVars
    /\ done = FALSE
    /\ taken = <<>>
    /\ context = TRUE
    /\ context_locks = 1
    /\ cur = 0
    /\ messages = <<>>
    /\ recv_waker = 0
    /\ root_log = <<>>
    /\ polled = <<>>
    /\ pass_queue = <<>>
    /\ tasks = [k \in 1..n |-> [NewTask EXCEPT !.ops = 0]]
    /\ roles = [k \in 1..n |-> [kind |-> "inbox", node |-> k]]
    /\ ready_tasks = [k \in 1..n |-> k]
    /\ bandwidth = [k \in 1..n |-> bw]
    /\ inbox = [k \in 1..n |-> <<>>]
    /\ inbox_waker = [k \in 1..n |-> 0]
    /\ batch = [k \in 1..n |-> <<>>]
    /\ enq_log = [k \in 1..n |-> <<>>]
    /\ links = [l \in 1..(n - 1) |-> LinkNew(HubNode, l + 1, latency)]
    /\ link_sends = [l \in 1..(n - 1) |-> 0]
    /\ network_links =
          [k \in 1..n |-> [p \in NodeIds |->
              IF k = HubNode /\ p \in 2..n THEN p - 1
              ELSE IF k # HubNode /\ p = HubNode THEN k - 1 ELSE 0]]
    /\ next_msg = 0
    /\ sent_log = <<>>
    /\ handle_log = <<>>
    /\ ack_log = <<>>
    /\ ret = "none"
    /\ chan_sent = <<>>
    /\ chan_recv = <<>>
    /\ chan_last = [by |-> 0, buffered |-> <<>>, ready |-> FALSE, batch |-> <<>>,
                    left |-> <<>>, waker |-> 0]
    /\ stopped = 0
    /\ conv = NoConv

InitSend == InitStar(NumNodes, MaxLat, FromMegabitsPerSecond(1))

NextSend ==
    \/ \E a, b \in NodeIds : ApiSendTo(a, b)
    \/ \E a \in NodeIds, ignore \in 0..NumNodes : ApiBroadcast(a, ignore)
    \/ \E source \in NodeIds \ {HubNode} : ApiHandleMessage(source)
    \/ \E a \in NodeIds : ApiDisconnectAll(a)

SpecSend == InitSend /\ [][NextSend]_vars

(***************************************************************************)
(* SpecLink: the runtime driven by hand, as tests::is_active of link.rs    *)
(* does.  The driving code creates two nodes and their link and sends      *)
(* inside a with_context block, leaves the block, and then keeps calling   *)
(* execute_tasks, and Timer::advance while a time event is pending.        *)
(***************************************************************************)
\* asim.get_timer().advance() called by the driving code
ApiAdvance ==
    /\ pc = "api"
    /\ AdvancePop
    /\ UNCHANGED <<pc, sleepVars, mutexVars, rtVars>>

\* two nodes and the link between them, of any latency and bandwidth
InitLink ==
    \E latency \in Latencies, bw \in Bandwidths : InitStar(HubNode + 1, latency, bw)

NextLink ==
    \/ \E a, b \in {HubNode, HubNode + 1} : a # b /\ ApiSendTo(a, b)
    \/ DropContextLock
    \/ ExecuteTasksCall
    \/ PollNext
    \/ TransitPoll
    \/ InboxRecvPoll
    \/ InboxItemPoll
    \/ HandlerPoll
    \/ ExecuteTasksReturn
    \/ ApiAdvance

SpecLink == InitLink /\ [][NextLink]_vars /\ WF_vars(NextLink)

(***************************************************************************)
(* SpecStop: SpecLink with a driving code that also calls runtime.stop(),  *)
(* once, between two passes.                                               *)
(***************************************************************************)
\* Runtime::stop: self.ready_tasks.borrow_mut().clear()
RtStop ==
    /\ pc = "api"
    /\ stopped = 0
    /\ ready_tasks' = <<>>
    /\ stopped' = Len(tasks)
    /\ UNCHANGED <<conv, pc, timerVars, sleepVars, mutexVars, done, taken, context, tasks,
                   cur, messages, recv_waker, root_log, passVars, context_locks,
                   netVars, netLogs, chanLogs>>

NextStop ==
    \/ NextLink
    \/ RtStop

SpecStop == InitLink /\ [][NextStop]_vars

(***************************************************************************)
(* Time and Duration units (time.rs).  Both types wrap one u64 counting    *)
(* microseconds; a value is modelled by that number.  The inputs of        *)
(* SpecUnits stay far below the point where a multiplication overflows.    *)
(***************************************************************************)
\* Duration::from_micros: Self(micros)
DurationFromMicros(micros) == micros

\* Duration::from_millis: Self::from_micros(millis * 1000)
DurationFromMillis(millis) == DurationFromMicros(millis * 1000)

\* Duration::from_seconds: Self::from_millis(seconds * 1000)
DurationFromSeconds(seconds) == DurationFromMillis(seconds * 1000)

DurationToSecondsPerMilli(value) == value \div 1000

\* Duration::to_seconds: self.0 / 1_000_000
DurationToSeconds(value) == value \div 1000000

\* Duration::to_millis: self.0 / 1_000
DurationToMillis(value) == value \div 1000

\* Duration::as_micros: self.0
DurationAsMicros(value) == value

\* Time::from_micros: Self(micros)
TimeFromMicros(micros) == micros

\* Time::from_millis: Self::from_micros(millis * 1000)
TimeFromMillis(millis) == TimeFromMicros(millis * 1000)

\* Time::from_seconds: Self::from_millis(seconds * 1000)
TimeFromSeconds(seconds) == TimeFromMillis(seconds * 1000)

\* Time::to_seconds: self.0 / 1_000_000
TimeToSeconds(value) == value \div 1000000

\* Time::to_millis: self.0 / 1_000
TimeToMillis(value) == value \div 1000

\* Time::as_micros: self.0
TimeAsMicros(value) == value

UnitTypes == {"Duration", "Time"}
Units     == {"s", "ms", "us"}

\* the constructor of `type` for `unit`, applied to n
FromUnit(type, unit, n) ==
    IF type = "Duration"
    THEN CASE unit = "s"  -> DurationFromSeconds(n)
           [] unit = "ms" -> DurationFromMillis(n)
           [] unit = "us" -> DurationFromMicros(n)
    ELSE CASE unit = "s"  -> TimeFromSeconds(n)
           [] unit = "ms" -> TimeFromMillis(n)
           [] unit = "us" -> TimeFromMicros(n)

\* the accessor of `type` for `unit`, applied to a value
ToUnit(type, unit, value) ==
    IF type = "Duration"
    THEN CASE unit = "s"  -> DurationToSeconds(value)
           [] unit = "ms" -> DurationToMillis(value)
           [] unit = "us" -> DurationAsMicros(value)
    ELSE CASE unit = "s"  -> TimeToSeconds(value)
           [] unit = "ms" -> TimeToMillis(value)
           [] unit = "us" -> TimeAsMicros(value)

UnitsUnchanged ==
    UNCHANGED <<pc, timerVars, ready_tasks, sleepVars, mutexVars, done, taken,
                context, tasks, cur, messages, recv_waker, root_log, passVars,
                context_locks, netVars, netLogs, chanLogs, stopped>>

\* let v = Duration::from_<unit>(n)   or   let v = Time::from_<unit>(n)
UnitsFrom(type, unit, n) ==
    /\ conv' = [type |-> type, unit |-> unit, n |-> n,
                value |-> FromUnit(type, unit, n), read |-> "none", out |-> 0]
    /\ UnitsUnchanged

\* v.to_seconds(), v.to_millis() or v.as_micros() on the value made last
UnitsRead(unit) ==
    /\ conv.type # "none"
    /\ conv' = [conv EXCEPT !.read = unit,
                            !.out = ToUnit(conv.type, unit, conv.value)]
    /\ UnitsUnchanged

InitUnits ==
    /\ pc = "api"
    /\ sleeps = {}
    /\ InitTimerVars /\ InitMutexVars /\ InitRtVars

NextUnits ==
    \/ \E type \in UnitTypes, unit \in Units, n \in 0..MaxUnits : UnitsFrom(type, unit, n)
    \/ \E unit \in Units : UnitsRead(unit)

SpecUnits == InitUnits /\ [][NextUnits]_vars

(***************************************************************************)
(* SpecBlock: the two nodes of SpecLink with a NodeCallback whose          *)
(* handle_message may await something that never happens.  The driving     *)
(* code runs passes until no task is ready before it advances the timer.   *)
(***************************************************************************)
\* a blocked handle_message that stops the inbox loop of its node as well
HandlerBlockStopsInbox ==
    /\ pc = "poll"
    /\ Role(cur).kind = "handler"
    /\ tasks[cur].await.kind = "none"
    /\ LET r == Role(cur) IN
       /\ handle_log' = Append(handle_log, [node |-> r.node, source |-> r.source,
                                            msg |-> r.msg, time |-> current_time])
       /\ tasks' = [t \in DOMAIN tasks |->
                       IF t = cur THEN [tasks[t] EXCEPT !.await = [kind |-> "never",
                                                                   wake_time |-> 0]]
                       ELSE IF Role(t).kind = "inbox" /\ Role(t).node = r.node
                       THEN [tasks[t] EXCEPT !.future = FALSE]
                       ELSE tasks[t]]
    /\ cur' = 0
    /\ pc' = "pass"
    /\ UNCHANGED <<time_events, ready_tasks, inbox, inbox_waker, batch, enq_log,
                   ack_log, links, roles, next_msg, link_sends, sent_log>>
    /\ PollUnchanged

\* the task that runs handle_message, with a callback that logs the message
\* and then awaits a future nobody completes: the task returns Pending and
\* no waker of it is kept anywhere
HandlerBlock ==
    /\ pc = "poll"
    /\ Role(cur).kind = "handler"
    /\ tasks[cur].await.kind = "none"
    /\ LET r == Role(cur) IN
       handle_log' = Append(handle_log, [node |-> r.node, source |-> r.source,
                                         msg |-> r.msg, time |-> current_time])
    /\ Suspend([kind |-> "never", wake_time |-> 0])
    /\ UNCHANGED <<time_events, ready_tasks, inbox, inbox_waker, batch, enq_log,
                   ack_log, links, roles, next_msg, link_sends, sent_log>>
    /\ PollUnchanged

NextBlock ==
    \/ \E a, b \in {HubNode, HubNode + 1} : a # b /\ ApiSendTo(a, b)
    \/ DropContextLock
    \/ ExecuteTasksCall
    \/ PollNext
    \/ TransitPoll
    \/ InboxRecvPoll
    \/ InboxItemPoll
    \/ HandlerPoll
    \/ HandlerBlock
    \/ ExecuteTasksReturn
    \/ ready_tasks = <<>> /\ ApiAdvance

SpecBlock == InitLink /\ [][NextBlock]_vars

(***************************************************************************)
(* SpecCut: SpecLink with a driving code that may also call                *)
(* disconnect_all on either node, at any point between two passes.         *)
(***************************************************************************)
NextCut ==
    \/ NextLink
    \/ \E a \in {HubNode, HubNode + 1} : ApiDisconnectAll(a)

SpecCut == InitLink /\ [][NextCut]_vars

(***************************************************************************)
(* SpecHold: SpecExec's driving code and tasks, and one more task that     *)
(* keeps the guard over an await and takes the mutex again as soon as it   *)
(* has dropped it:                                                         *)
(*     loop { let g = mutex.lock().await; yield_now().await; drop(g); }    *)
(* LockFuture identifiers are only compared for equality (mutex.rs:119,    *)
(* 136).  The first lock() of the loop takes next_waiter_id as the code    *)
(* does; a later one is given the identifier of the loop's previous        *)
(* attempt, which no future, guard or waiter entry uses any more, so that  *)
(* the loop is finite-state.  MaxLockIds bounds the attempts of the others *)
(* only: the loop is never stopped by it.                                  *)
(***************************************************************************)
HoldUnchanged ==
    UNCHANGED <<timerVars, sleepVars, guards, lock_futs, cond_waiters, cond_waits,
                done, taken, context, messages, recv_waker, root_log, passVars,
                context_locks, netVars, netLogs, chanLogs, auxVars>>

\* Runtime::spawn of the task that runs the loop
HolderSpawn ==
    /\ pc = "api"
    /\ Len(tasks) < MaxTasks
    /\ Len(ready_tasks) < MaxReady
    /\ \A t \in DOMAIN roles : roles[t].kind # "holder"
    /\ tasks' = Append(tasks, [NewTask EXCEPT !.ops = 0])
    /\ roles' = AddRole(roles, Len(tasks) + 1, [kind |-> "holder"])
    /\ ready_tasks' = Spawn(ready_tasks, Len(tasks) + 1)
    /\ UNCHANGED <<pc, timerVars, sleepVars, mutexVars, done, taken, context, cur,
                   messages, recv_waker, root_log, passVars, context_locks,
                   network_links, bandwidth, links, inbox, inbox_waker, batch,
                   netLogs, chanLogs, auxVars>>

\* the loop polls its LockFuture `id`: with the guard it goes on to
\* yield_now().await, which wakes the task and returns Pending
HolderPollLock(id) ==
    LET r == LockFuturePoll(id, cur) IN
    /\ waiters' = r.waiters
    /\ is_locked' = r.is_locked
    /\ IF r.ready
       THEN /\ ready_tasks' = WakeByRef(ready_tasks, cur)
            /\ Suspend([kind |-> "held", wake_time |-> id])
       ELSE /\ UNCHANGED ready_tasks
            /\ Suspend([kind |-> "lock", wake_time |-> id])

\* mutex.lock() and the first poll of the future
HolderLock ==
    /\ pc = "poll"
    /\ Role(cur).kind = "holder"
    /\ tasks[cur].await.kind \in {"none", "dropped"}
    /\ IF tasks[cur].await.kind = "none"
       THEN /\ next_waiter_id' = next_waiter_id + 1
            /\ HolderPollLock(next_waiter_id)
       ELSE /\ UNCHANGED next_waiter_id
            /\ HolderPollLock(tasks[cur].await.wake_time)
    /\ UNCHANGED roles
    /\ HoldUnchanged

\* the loop, suspended on its LockFuture, is polled again
HolderResumeLock ==
    /\ pc = "poll"
    /\ Role(cur).kind = "holder"
    /\ tasks[cur].await.kind = "lock"
    /\ HolderPollLock(tasks[cur].await.wake_time)
    /\ UNCHANGED <<next_waiter_id, roles>>
    /\ HoldUnchanged

\* the loop resumes after yield_now and drops its guard
HolderDrop ==
    /\ pc = "poll"
    /\ Role(cur).kind = "holder"
    /\ tasks[cur].await.kind = "held"
    /\ is_locked' = FALSE
    /\ ready_tasks' = GuardDropWakes(waiters, ready_tasks)
    /\ tasks' = [tasks EXCEPT ![cur].await = [kind |-> "dropped",
                                              wake_time |-> tasks[cur].await.wake_time]]
    /\ UNCHANGED <<pc, cur, next_waiter_id, waiters, roles>>
    /\ HoldUnchanged

UserPolled == pc = "poll" /\ Role(cur).kind = "user"

NextHold ==
    \/ RtSpawn
    \/ HolderSpawn
    \/ ExecuteTasksCall
    \/ PollNext
    \/ UserPolled /\ OpLock
    \/ UserPolled /\ ResumeLock
    \/ UserPolled /\ OpFinish
    \/ HolderLock
    \/ HolderResumeLock
    \/ HolderDrop
    \/ ExecuteTasksReturn
    \/ UserLock
    \/ \E g \in guards : MDropGuard(g)

SpecHold == InitExec /\ [][NextHold]_vars /\ WF_vars(NextHold)

(***************************************************************************)
(* Properties of the network API (SpecSend, SpecPeers).                    *)
(***************************************************************************)
\* the entries a call has appended to the log of the Link::sends
NewSends == SubSeq(sent_log', Len(sent_log) + 1, Len(sent_log'))

\* C28: a.send_to(b, msg) returns true iff b is in a's peer table; it then
\* sends exactly one message, on the link the table holds for b, with a's
\* own identifier as the source (the queue from a to b counts it).  When it
\* returns false no message is sent and no link counter changes.  In both
\* cases the peer tables are left alone.
C28_SendTo ==
    [][\A a \in NodesCreated, b \in NodeIds :
         (ApiSendTo(a, b) /\ pc' # "panicked") =>
            /\ network_links' = network_links
            /\ IF network_links[a][b] # 0
               THEN LET l == network_links[a][b] IN
                    /\ ret' = "true"
                    /\ Len(NewSends) = 1
                    /\ NewSends[1].link = l
                    /\ NewSends[1].source = a
                    /\ links[l].queues[NewSends[1].q].source = a
                    /\ links[l].queues[NewSends[1].q].dest = b
                    /\ link_sends' = [link_sends EXCEPT ![l] = @ + 1]
                    /\ links'[l].queues[NewSends[1].q].total_message_count
                         = links[l].queues[NewSends[1].q].total_message_count + 1
                    /\ \A k \in DOMAIN links : k # l => links'[k] = links[k]
               ELSE /\ ret' = "false"
                    /\ UNCHANGED <<links, link_sends, sent_log, next_msg, tasks,
                                   ready_tasks>>]_vars

\* send_to has returned true for one peer and, later, false for a node that
\* is not a peer
C28_Witness ==
    /\ ret = "false"
    /\ Len(sent_log) = 1
    /\ sent_log[1].source # links[sent_log[1].link].queues[1].source

\* C29: a.broadcast(msg, ignore) sends exactly one copy of msg to every
\* peer in a's table except ignore, with a as the source, and nothing to
\* any other node; with an empty peer table it sends nothing.  A hub that
\* relays a received message to all its peers but the source sends no copy
\* back to the source and exactly one copy to each other peer.
C29_Broadcast ==
    /\ [][\A a \in NodesCreated, ignore \in 0..NumNodes :
         (ApiBroadcast(a, ignore) /\ pc' # "panicked") =>
            LET to == GetPeers(a) \ {ignore}
                dest(e) == links[e.link].queues[e.q].dest
            IN
            /\ Len(NewSends) = Cardinality(to)
            /\ \A p \in to : \E i \in 1..Len(NewSends) :
                   /\ dest(NewSends[i]) = p
                   /\ NewSends[i].link = network_links[a][p]
            /\ \A i \in 1..Len(NewSends) :
                   /\ NewSends[i].source = a
                   /\ NewSends[i].msg.content = next_msg + 1
                   /\ dest(NewSends[i]) \in to
            /\ network_links' = network_links]_vars
    /\ [][\A source \in NodeIds \ {HubNode} :
            (ApiHandleMessage(source) /\ pc' # "panicked") =>
               LET dest(e) == links[e.link].queues[e.q].dest
                   copies(p) == {i \in 1..Len(NewSends) : dest(NewSends[i]) = p}
               IN
               /\ copies(source) = {}
               /\ \A p \in GetPeers(HubNode) \ {source} : Cardinality(copies(p)) = 1
               /\ \A i \in 1..Len(NewSends) :
                      /\ NewSends[i].source = HubNode
                      /\ NewSends[i].msg.content = next_msg + 1
                      /\ dest(NewSends[i]) \in GetPeers(HubNode)]_vars

\* the hub, with at least two peers, has broadcast a message with one of
\* them ignored and has then relayed a message of one of its peers
C29_Witness ==
    /\ Len(sent_log) = 2 * Cardinality(GetPeers(HubNode)) - 2
    /\ Cardinality(GetPeers(HubNode)) >= 2
    /\ \A i \in DOMAIN sent_log : sent_log[i].source = HubNode
    /\ sent_log[1].msg.origin = HubNode
    /\ sent_log[Len(sent_log)].msg.origin \in GetPeers(HubNode)

Symmetric ==
    \A a, b \in NodesCreated : network_links[a][b] = network_links[b][a]

\* C30: the peer tables stay symmetric under any sequence of connect and
\* disconnect_all (b is in a's table iff a is in b's, and with the same
\* link); connect(a, b) puts the new link into both tables;
\* a.disconnect_all() leaves a without peers, removes a from the table of
\* every former peer and leaves every other entry as it was.
C30_PeerTables ==
    /\ []Symmetric
    /\ [][\A a, b \in NodesCreated, latency \in Latencies :
            (ApiConnect(a, b, latency) /\ pc' # "panicked") =>
               /\ network_links'[a][b] = Len(links')
               /\ network_links'[b][a] = Len(links')
               /\ \A n \in NodesCreated, p \in NodeIds :
                      <<n, p>> \notin {<<a, b>>, <<b, a>>} =>
                         network_links'[n][p] = network_links[n][p]]_vars
    /\ [][\A a \in NodesCreated :
            (ApiDisconnectAll(a) /\ pc' # "panicked") =>
               /\ \A p \in NodeIds : network_links'[a][p] = 0
               /\ \A n \in NodesCreated \ {a} :
                      network_links'[n] = [network_links[n] EXCEPT ![a] = 0]]_vars

\* a node that was connected has called disconnect_all, and its former peer
\* still has its entry for another node
C30_Witness ==
    /\ Len(links) = MaxLinks
    /\ \E a, b \in NodesCreated, l \in DOMAIN links :
         /\ {links[l].queues[1].source, links[l].queues[1].dest} = {a, b}
         /\ GetPeers(a) = {}
         /\ GetPeers(b) # {}

(***************************************************************************)
(* Properties of the links and of delivery (SpecNet).                      *)
(***************************************************************************)
Range(f) == {f[i] : i \in DOMAIN f}

\* the messages sent on queue q of link l whose ack has not been invoked
InFlight(l, q) ==
    {i \in DOMAIN sent_log :
        sent_log[i].link = l /\ sent_log[i].q = q /\ i \notin Range(ack_log)}

Handled(id) == {i \in DOMAIN handle_log : handle_log[i].msg.id = id}

\* nothing is ready, being polled or waiting for the timer
Quiescent ==
    /\ ready_tasks = <<>>
    /\ taken = <<>>
    /\ cur = 0
    /\ time_events = <<>>

\* block_on has returned or panicked
Stopped == pc \in {"returned", "panicked"}

\* C23: num_total_messages() of a link equals the number of Link::send
\* invocations made on it, both directions together; deliveries and acks
\* never change it.
C23_TotalCountsSends ==
    \A l \in DOMAIN links : NumTotalMessages(l) = link_sends[l]

\* a link has carried messages in both directions and one has been acked
C23_Witness ==
    \E l \in DOMAIN links :
        /\ links[l].queues[1].total_message_count > 0
        /\ links[l].queues[2].total_message_count > 0
        /\ \E i \in DOMAIN ack_log : sent_log[ack_log[i]].link = l
        /\ NumTotalMessages(l) > links[l].queues[1].current_message_count
                                 + links[l].queues[2].current_message_count

\* C24: active_queues of a link is the number of its queues whose in-flight
\* counter is above 0, so is_active() is false iff the counter is 0 in
\* both directions; the in-flight counter of a queue is the number of
\* messages sent on it and not yet acked, so an ack always finds it above 0.
C24_ActiveQueues ==
    \A l \in DOMAIN links :
        /\ links[l].active_queues =
              Cardinality({q \in 1..2 : links[l].queues[q].current_message_count > 0})
        /\ ~IsActive(l) <=> \A q \in 1..2 : links[l].queues[q].current_message_count = 0
        /\ \A q \in 1..2 :
              links[l].queues[q].current_message_count = Cardinality(InFlight(l, q))
        /\ \A n \in DOMAIN batch : \A i \in DOMAIN batch[n] :
              batch[n][i].link = l =>
                 links[l].queues[batch[n][i].q].current_message_count > 0

\* a link that was active in both directions is inactive again
C24_Witness ==
    \E l \in DOMAIN links :
        /\ ~IsActive(l)
        /\ links[l].queues[1].total_message_count > 0
        /\ links[l].queues[2].total_message_count > 0

\* C25: in each direction of a link the messages get into the inbox of the
\* destination in the order in which they were sent, also when several are
\* sent at the same simulated time.
C25_FifoPerDirection ==
    \A n \in DOMAIN enq_log : \A i, j \in DOMAIN enq_log[n] :
        (/\ i < j
         /\ sent_log[enq_log[n][i]].link = sent_log[enq_log[n][j]].link
         /\ sent_log[enq_log[n][i]].q = sent_log[enq_log[n][j]].q)
        => enq_log[n][i] < enq_log[n][j]

\* the acks invoked for message id
Acked(id) == {i \in DOMAIN ack_log : ack_log[i] = id}

\* every message accepted by Link::send has been passed to handle_message
\* once and its ack closure has been invoked once
AllDelivered ==
    \A id \in DOMAIN sent_log :
        Cardinality(Handled(id)) = 1 /\ Cardinality(Acked(id)) = 1

\* C26: delivery is lossless.  No message is handled or acked twice, and
\* only messages that were sent are; whenever the runtime has nothing left
\* to run (no task is ready or being polled and the timer holds no entry)
\* every message accepted by Link::send has been passed to handle_message
\* exactly once and its ack invoked exactly once; and as long as passes
\* are run and the timer is advanced that point is reached.  (A send that
\* panics, outside an asim context, is not accepted.)
C26_Lossless ==
    /\ [](\A id \in Range(ack_log) \cup {handle_log[i].msg.id : i \in DOMAIN handle_log} :
            /\ id \in DOMAIN sent_log
            /\ Cardinality(Handled(id)) <= 1
            /\ Cardinality(Acked(id)) = 1)
    /\ []((Quiescent /\ ~Stopped) => AllDelivered)
    /\ []<>(AllDelivered \/ Stopped)

\* two messages that crossed a link with a latency have both been handled
\* and acked
C26_Witness ==
    /\ AllDelivered
    /\ ~Stopped
    /\ Len(sent_log) >= 2
    /\ \A i \in DOMAIN sent_log : links[sent_log[i].link].queues[1].latency > 0

\* C27: a message sent to a destination whose inbox is idle (it is the
\* first message that reaches that inbox) starts being handled exactly
\* latency + get_size_delay(size, bandwidth of the destination) after it
\* was sent.
C27_TransitTime ==
    \A i \in DOMAIN handle_log :
        LET h == handle_log[i]
            e == sent_log[h.msg.id]
        IN enq_log[h.node][1] = h.msg.id =>
              h.time - e.time = links[e.link].queues[e.q].latency
                                + GetSizeDelay(MsgSize, bandwidth[h.node])
\* the quotient a / b rounded up
CeilDiv(a, b) == (a + b - 1) \div b

\* C31: the bandwidth delay that inbox_loop applies to a tuple is
\* ceil(size * 8 * 10^6 / bandwidth) microseconds: the loop sleeps until
\* the time of the poll plus that delay, and does not sleep if it is zero.
C31_SizeDelayCeil ==
    [][(InboxItemPoll /\ tasks[cur].await.kind = "item") =>
          LET d == CeilDiv(MsgSize * 8 * 1000 * 1000, bandwidth[Role(cur).node]) IN
          IF d = 0
          THEN tasks'[cur].await.kind # "sleep"
          ELSE tasks'[cur].await = [kind |-> "sleep",
                                    wake_time |-> current_time + d]]_vars

\* C32: runtime.stop() drops all tasks: when it returns the ready queue is
\* empty, and no task that existed before the stop is polled afterwards,
\* whether it was in the ready queue or suspended at the time of the stop.
C32_StopDropsAllTasks ==
    /\ [][RtStop => ready_tasks' = <<>>]_vars
    /\ [](pc = "poll" => cur > stopped)

\* C33: unit conversions round-trip: a Duration or a Time made from n
\* seconds, milliseconds or microseconds reads back as n in the same unit,
\* and from_seconds(n) is the value from_millis(1000 n) and
\* from_micros(1000000 n) make (n small enough that no product overflows).
C33_UnitRoundTrip ==
    /\ (conv.read # "none" /\ conv.read = conv.unit) => conv.out = conv.n
    /\ (conv.type # "none" /\ conv.unit = "s") =>
          /\ conv.value = FromUnit(conv.type, "ms", 1000 * conv.n)
          /\ conv.value = FromUnit(conv.type, "us", 1000000 * conv.n)

\* two seconds made and read back as seconds (duration_from_seconds)
C33_Witness ==
    /\ conv.type = "Duration"
    /\ conv.unit = "s"
    /\ conv.n = 2
    /\ conv.read = "s"
    /\ conv.out = 2
    /\ conv.value = 2000000

\* C34: on every link the LinkCallback is told link_became_active exactly
\* when is_active() turns from false to true and link_became_inactive
\* exactly when it turns from true to false, so the two calls alternate,
\* starting with link_became_active.
C34_CallbackAlternates ==
    /\ [][\A l \in DOMAIN links :
            links'[l].callback =
                IF ~IsActive(l) /\ links'[l].active_queues > 0
                THEN Append(links[l].callback, "link_became_active")
                ELSE IF IsActive(l) /\ links'[l].active_queues = 0
                THEN Append(links[l].callback, "link_became_inactive")
                ELSE links[l].callback]_vars
    /\ [](\A l \in DOMAIN links : \A i \in DOMAIN links[l].callback :
            links[l].callback[i] = IF i % 2 = 1 THEN "link_became_active"
                                   ELSE "link_became_inactive")

\* a link that became active, inactive and active again
C34_Witness ==
    \E l \in DOMAIN links :
        /\ links[l].callback = <<"link_became_active", "link_became_inactive",
                                 "link_became_active">>
        /\ IsActive(l)

\* C35: execute_tasks returns true if and only if the pass polled at least
\* one task; on an empty ready queue it returns false at once, polls nothing
\* and does not install the context.
C35_TrueIffPolled ==
    /\ [][ExecuteTasksReturn => polled # <<>>]_vars
    /\ [][(ExecuteTasksCall /\ ready_tasks = <<>>) =>
             /\ pc' = "api"
             /\ polled' = <<>>
             /\ UNCHANGED <<context, context_locks, tasks, cur>>]_vars
    /\ [](pc \in {"pass", "poll"} => pass_queue # <<>>)

\* the handle_message calls made at node n, in the order they started
HandledAt(n) == SelectSeq(handle_log, LAMBDA h : h.node = n)

\* the time the message of a handle_message call reached the inbox
ArrivalOf(h) ==
    LET e == sent_log[h.msg.id] IN e.time + links[e.link].queues[e.q].latency

\* the handlers that were started and will never complete
BlockedHandlers == {t \in DOMAIN tasks : tasks[t].await.kind = "never"}

WaitsForLock(t) ==
    t \in DOMAIN tasks /\ tasks[t].future /\ tasks[t].await.kind = "lock"

\* C37: no wake-up of the mutex is lost.  Between two polls, if the mutex is
\* unlocked and a waiter is queued, the task of the first waiter is in the
\* ready queue (or in the part of it the running pass has still to poll);
\* hence, if the mutex is released again and again, every task that polled
\* lock() obtains the guard in the end.
C37_NoLostWakeup ==
    /\ []((cur = 0 /\ ~is_locked /\ waiters # <<>>) =>
             \/ \E i \in DOMAIN ready_tasks : ready_tasks[i] = waiters[1].waker
             \/ \E i \in DOMAIN taken : taken[i] = waiters[1].waker)
    /\ ([]<>(~is_locked)) =>
          \A t \in 1..MaxTasks : [](WaitsForLock(t) => <>(~WaitsForLock(t)))

\* the tasks that run an inbox_loop
InboxTasks == {t \in DOMAIN roles : roles[t].kind = "inbox"}

\* the entries of task t in the ready queue and in what the running pass
\* has still to poll
ReadyEntries(t) ==
    {i \in DOMAIN ready_tasks : ready_tasks[i] = t}
    \cup {Len(ready_tasks) + i : i \in {j \in DOMAIN taken : taken[j] = t}}

\* C38: no wake-up of the channel is lost.  While the receiver task (here
\* the inbox_loop of a node) is suspended in recv and is not being polled,
\* a non-empty buffer means the task is in the ready queue; and however
\* many messages were sent since its last poll, it is there once.
C38_ChannelWakesOnce ==
    \A t \in InboxTasks :
        (tasks[t].await.kind = "recv" /\ cur # t) =>
            /\ inbox[roles[t].node] # <<>> => ReadyEntries(t) # {}
            /\ Cardinality(ReadyEntries(t)) <= 1
            /\ ReadyEntries(t) # {} => inbox_waker[roles[t].node] = 0

\* two messages were sent to a node since its inbox_loop was last polled,
\* and returned Pending: the task is in the ready queue once
C38_Witness ==
    \E t \in InboxTasks :
        /\ tasks[t].await.kind = "recv"
        /\ cur # t
        /\ Len(inbox[roles[t].node]) >= 2
        /\ Cardinality(ReadyEntries(t)) = 1

\* C39: disconnect_all does not touch the messages in flight.  The call
\* leaves the counters of every link, the inboxes and the tasks as they
\* are, and a message sent before it is still passed to handle_message and
\* acked: once nothing is left to run, every message sent has been.
C39_DisconnectKeepsInFlight ==
    /\ [][\A a \in NodesCreated :
            ApiDisconnectAll(a) =>
                UNCHANGED <<links, inbox, inbox_waker, batch, tasks, ready_tasks,
                            time_events, sent_log>>]_vars
    /\ []((Quiescent /\ ~Stopped) => AllDelivered)
    /\ [](\A l \in DOMAIN links : \A q \in {1, 2} :
            links[l].queues[q].current_message_count = Cardinality(InFlight(l, q)))

\* both peer tables have been emptied by disconnect_all while a message
\* sent before is in transit (its task sleeps for the latency); another
\* message of the link has been passed to handle_message and acked
C39_Witness ==
    /\ \A n \in NodesCreated : GetPeers(n) = {}
    /\ time_events # <<>>
    /\ \E l \in DOMAIN links : InFlight(l, 1) \cup InFlight(l, 2) # {}
    /\ \E i \in DOMAIN handle_log : handle_log[i].msg.id \in Range(ack_log)

\* C40: there is no barging on the mutex.  An attempt polled for the first
\* time while the mutex is free and waiters are queued does not obtain the
\* guard before them: the guard goes to the attempts in the order of their
\* first polls, so an attempt obtains it only if no other attempt is queued.
C40_NoBarging ==
    /\ [][(OpLock /\ ~is_locked) => waiters = <<>>]_vars
    /\ [][UserLock => waiters = <<>>]_vars
    /\ [][(ResumeLock /\ ~is_locked) =>
             waiters[1].id = tasks[cur].await.wake_time]_vars

====
